---- MODULE Spec2Model ----
(***************************************************************************)
(* gitcollector: the job scheduler (jobScheduler.Schedule and the          *)
(* library schedule functions), the worker (Worker.Start / consumeJob /    *)
(* Stop) and the worker pool (WorkerPool.Run / Size / SetWorkers / Wait /  *)
(* Close / Stop), as goroutines that communicate over Go channels.         *)
(*                                                                         *)
(* Go channels: a buffered channel is a sequence plus a closed flag; an    *)
(* unbuffered channel is a rendezvous, an action taken jointly by the      *)
(* blocked sender and the receiving select.  A send on a closed channel    *)
(* panics, and a panic ends the whole program.  Timers (context timeouts,  *)
(* time.After) are nondeterministic: they may fire whenever the code waits *)
(* on them.                                                                *)
(*                                                                         *)
(* The pool is driven by one caller goroutine that issues the exported     *)
(* calls one after the other and calls Run at most once.  The metrics      *)
(* collector is the MetricsCollector interface: its calls are recorded.    *)
(***************************************************************************)
EXTENDS Integers, Sequences, FiniteSets, TLC

\* ---------------------------------------------------------------- bounds
\* number of jobs the providers hand to the source channels
NJobs == 1
\* number of workers the pool creates over its whole life
MaxWorkers == 2
\* number of calls the caller makes on the pool
MaxCalls == 3
\* capacity of the scheduler's outbound channel (opts.SchedulerCapacity)
JobsCap == 1

Jobs == 1..NJobs
WorkerIds == 1..MaxWorkers
\* arguments the caller passes to SetWorkers
SetArgs == (-1)..MaxWorkers

\* library.JobType values, plus a library.Job whose Type is neither constant
\* ("Other") and a gitcollector.Job that is not a *library.Job ("Foreign")
JobDownload == "Download"
JobUpdate == "Update"
JobKinds == {JobDownload, JobUpdate, "Other", "Foreign"}

\* the three schedule functions of package library
FnKinds == {"download", "update", "combined"}

\* values of opts.NotWaitNewJobs
NotWaitValues == BOOLEAN

\* -------------------------------------------------- metrics: bounds
\* opts.BatchSize of every metrics.Collector
BatchSize == 2
\* number of events sent straight to a metrics.Collector
NEvents == 3
\* number of events sent to the metrics.CollectorByOrg
NOrgEvents == 2
\* number of Stop calls made on a metrics.Collector
MaxStops == 2
\* number of Stop calls made on the metrics.CollectorByOrg
MaxOrgStops == 1
\* number of opts.Send invocations after which the timer is not followed
MaxSends == 4
\* number of events sent to the collector whose SyncTime never elapses
NBatchEvents == 4

\* capacity of c.success, c.fail and c.discover
Capacity == 5 * BatchSize

\* keys of CollectorByOrg.orgMetrics; "org1" is also the collector that is
\* driven on its own
Collectors == {"org1", "org2"}
Single == "org1"

\* successKind, failKind, discoverKind
EventKinds == {"success", "fail", "discover"}

\* job.Type of the jobs the events carry
EventTypes == {JobDownload, JobUpdate}

\* endpoints: two repositories of org1 (one spelled in upper case), one of
\* org2, and one of an organization that has no collector
Endpoints ==
    {"github.com/org1/a", "github.com/ORG1/b", "github.com/org2/c",
     "github.com/org3/d"}

\* job.Endpoints of the jobs the events carry: none, one organization
\* (with one and with two endpoints), several organizations
EndpointLists ==
    {<<>>,
     <<"github.com/org2/c">>,
     <<"github.com/org1/a", "github.com/ORG1/b">>,
     <<"github.com/org1/a", "github.com/org2/c", "github.com/ORG1/b">>,
     <<"github.com/org2/c", "github.com/org3/d">>}

NoCounts == [discover |-> 0, download |-> 0, update |-> 0, fail |-> 0]

\* ------------------------------------------------ discovery: bounds
\* opts.BatchSize of the discovery.GitHub
GhBatchSize == 2
\* opts.MaxJobBuffer of the discovery.GitHub
MaxJobBuffer == 1
\* number of p.iter.Next calls
MaxNext == 5
\* number of Stop calls made on the discovery.GitHub
MaxGhStops == 2

\* opts.PerPage of the GHOrgReposIter
PerPage == 2
\* length the organization's listing grows to
MaxRepos == 5
\* number of Next calls made on the GHOrgReposIter
MaxItCalls == 8

\* updates provider: locations the library can hold, capacity of the update
\* queue, sweeps and Stop calls of a run
MaxLocs == 3
QueueCap == 2
MaxSweeps == 2
MaxUpStops == 2

\* advertise function: repositories of a batch, capacity of the job queue
MaxAdvBatch == 3
AdvQueueCap == 1

\* GitHubOpts before NewGitHub, and the iterator's result before any call
NoOpts == [waitNewRepos |-> FALSE, waitOnRateLimit |-> FALSE,
           skipForks |-> FALSE]
NoResult == [kind |-> "none", retry |-> 0, fork |-> FALSE]

\* the library's location ids, and the state before a library, a job or a
\* libHas call exists
LocationIDs == {"loc1", "loc2"}
NoLib == [l \in LocationIDs |-> <<>>]
NoJob == [type |-> "none", endpoints |-> <<>>, allowUpdate |-> FALSE,
          locationID |-> "", sivaLib |-> FALSE]
NoHas == [ok |-> FALSE, locID |-> "", err |-> "none"]
NoRate == [now |-> 0, reset |-> 0, remaining |-> 0, limit |-> 0,
           pc |-> "none", retry |-> 0]

VARIABLES
    fnKind,          \* which schedule function the pool was built with
    notWaitNewJobs,  \* opts.NotWaitNewJobs
    download,        \* download source channel (buffer)
    update,          \* update source channel (buffer)
    downloadClosed,  \* close(download) was called
    updateClosed,    \* close(update) was called
    nextJob,         \* next job the providers enqueue
    kind,            \* job.Type of every job ("none": not created yet)
    id,              \* job.ID of every job (0: empty string)
    dlNil,           \* NewJobScheduleFn closure: download == nil
    upNil,           \* NewJobScheduleFn closure: update == nil
    schedPc,         \* position of the Schedule goroutine
    schedJob,        \* job the schedule function holds / returned (0: nil)
    ctxDone,         \* the schedule call's context has timed out
    jobs,            \* s.jobs, the outbound channel (buffer)
    jobsClosed,      \* close(s.jobs) was called
    discovered,      \* Metrics.Discover calls per job
    workers,         \* wp.workers
    nextWorker,      \* number of workers created so far
    wg,              \* wp.wg counter
    resize,          \* tokens in wp.resize
    workersToStop,   \* remove: workers whose stop(false) goroutine was spawned
    wpc,             \* position of every worker goroutine
    curJob,          \* job a worker took last (0: none)
    stopReq,         \* a stop(immediate) call blocked on w.cancel
    stopped,         \* w.stopped
    cancelClosed,    \* close(w.cancel) was called
    cancelInfo,      \* the cancel a worker received: <<value, job in flight,
                     \* position of that job's Process>>
    jstate,          \* position of the goroutine that processes a job
    result,          \* what Process returned
    processed,       \* Process calls per job
    success,         \* Metrics.Success calls per job
    fail,            \* Metrics.Fail calls per job
    cpc,             \* position of the caller
    cidx,            \* Stop: loop index over wp.workers
    call,            \* call in progress
    ret,             \* last call that returned
    ncalls,          \* calls made
    ran,             \* Run was called
    metricsStarted,  \* Metrics.Start was spawned
    metricsStop,     \* argument of the last Metrics.Stop call
    panicked,        \* a goroutine panicked: the program is over
    events,          \* metrics.Collector: c.success / c.fail / c.discover
                     \* (buffers), per collector and event kind
    chanNil,         \* Start set the channel field to nil
    chClosed,        \* c.close() ran: channels closed, c.cancel == nil
    counts,          \* the four counters of every collector
    loopPc,          \* position of every Start goroutine
    stop,            \* Start: local stop
    batch,           \* Start: local batch
    syncTimeout,     \* time.Since(lastSent) >= opts.SyncTime
    cwg,             \* c.wg counter
    sends,           \* opts.Send invocations per collector
    sendSeen,        \* counters the last opts.Send invocation was given
    sendErr,         \* the last opts.Send invocation returned an error
    finalSends,      \* opts.Send invocations after the loop ended
    expected,        \* contributions of the events whose call returned
    accepted,        \* number of events whose call returned
    stopPc,          \* position of the goroutine that calls Stop
    immediate,       \* argument of the Stop call in progress
    target,          \* collector whose Stop is in progress
    todo,            \* CollectorByOrg.Stop: collectors still to stop
    stopRet,         \* per collector: the Stop that delivered its cancel
                     \* has returned ("none", "graceful", "immediate")
    mixed,           \* CollectorByOrg was sent a job whose endpoints are not
                     \* all of one organization that has a collector
    nevents,         \* events sent so far
    nstops,          \* Stop calls made so far
    ghOpts,          \* discovery.GitHub: p.opts (the flags)
    ghBatch,         \* p.batch
    retryJobs,       \* p.retryJobs
    startPc,         \* position of GitHub.Start
    startRet,        \* what Start returned
    discPc,          \* position of the discoverRepositories goroutine
    discErr,         \* Start: err of the current iteration
    lastIter,        \* what the last p.iter.Next call returned
    iterCalls,       \* p.iter.Next calls made
    advCalls,        \* p.advertiseRepos calls made
    advErr,          \* what the last p.advertiseRepos call returned
    advLast,         \* batch given to the last p.advertiseRepos call
    ghStop,          \* position of the goroutine that calls GitHub.Stop
    ghStopRet,       \* what the last Stop call returned
    ghStops,         \* Stop calls made on the GitHub
    upstream,        \* GHOrgReposIter: length of the organization's listing
    excludedRepos,   \* p.excludedRepos
    itRepos,         \* p.repos
    checkpoint,      \* p.checkpoint
    page,            \* p.opts.Page
    yielded,         \* repositories Next has returned, in order
    itLast,          \* what the last Next call returned
    itCalls,         \* Next calls made on the GHOrgReposIter
    \* provider.Updates
    locIDs,          \* the library's location ids, in enumeration order
    upOpts,          \* the provider's options: [triggerOnce]
    queue,           \* the update queue: jobs sent and not yet received
    upPc,            \* Start: "unbuilt", "new", "update", "wait",
                     \* "returned"
    upRet,           \* what Start returned
    sweepPc,         \* update's goroutine: "none", "locations", "foreach",
                     \* "senderr", "closed"
    sweepLocs,       \* the locations the sweep's iterator enumerates
    sweepIdx,        \* the next location ForEach visits
    sweepErr,        \* what ForEach returned
    swept,           \* jobs the current sweep has enqueued
    prevLocs,        \* sweepLocs and swept of the sweep before
    prevSwept,
    received,        \* what update() received on done, "none" before
    upStop,          \* Stop: "idle", "send"
    upStopRet,       \* what the last Stop returned
    upStops,         \* Stop calls made
    sweeps,          \* update() calls made
    \* downloader.Download and updater.Update
    lib,             \* the library: the remotes every location holds
    libJob,          \* the library.Job handed to Download or Update
    jobPc,           \* "none", "ready", "done"
    jobErr,          \* what Download or Update returned
    hasSeen,         \* what libHas returned to Download
    fetched,         \* names of the remotes FetchContext was called on
    cloned,          \* id of the repository downloadRepository stored
    \* AdvertiseGHRepositoriesOnJobQueue
    batchRepos,      \* the repositories the call was given
    jobQueue,        \* the job queue: jobs sent and not yet received
    advIdx,          \* the repository the loop is at
    advPc,           \* "none", "send" (blocked in the select), "returned"
    advRet,          \* what the call returned
    advSent,         \* jobs the call has enqueued
    \* timeToRetry
    rate             \* the response timeToRetry is given: Unix times now and
                     \* reset, Rate.Remaining, Rate.Limit; pc "none", "given",
                     \* "returned"; retry, the duration returned

srcVars == <<download, update, downloadClosed, updateClosed, nextJob, kind>>
fnVars == <<id, dlNil, upNil, schedJob, ctxDone>>
schedVars == <<schedPc, jobs, jobsClosed, discovered>>
poolVars == <<workers, nextWorker, wg, resize, workersToStop>>
workerVars == <<wpc, curJob, stopReq, stopped, cancelClosed, cancelInfo>>
procVars == <<jstate, result, processed, success, fail>>
callerVars == <<cpc, cidx, call, ret, ncalls, ran>>
metricsVars == <<metricsStarted, metricsStop>>
cfgVars == <<fnKind, notWaitNewJobs>>
loopVars == <<events, chanNil, chClosed, counts, loopPc, stop, batch,
              syncTimeout, cwg, sends, sendSeen, sendErr, finalSends>>
driverVars == <<expected, accepted, stopPc, immediate, target, todo, stopRet,
                mixed, nevents, nstops>>
collectorVars == <<loopVars, driverVars>>
discVars == <<ghOpts, ghBatch, retryJobs, startPc, startRet, discPc, discErr,
              lastIter, iterCalls, advCalls, advLast, advErr, ghStop, ghStopRet,
              ghStops>>
iterVars == <<upstream, excludedRepos, itRepos, checkpoint, page, yielded,
              itLast, itCalls>>
updVars == <<locIDs, upOpts, queue, upPc, upRet, sweepPc, sweepLocs, sweepIdx,
             sweepErr, swept, prevLocs, prevSwept, received, upStop,
             upStopRet, upStops, sweeps>>
jobVars == <<lib, libJob, jobPc, jobErr, hasSeen, fetched, cloned>>
retryVars == <<rate>>
advVars == <<batchRepos, jobQueue, advIdx, advPc, advRet, advSent>>
sideVars == <<discVars, iterVars, updVars, jobVars, retryVars, advVars>>

vars == <<cfgVars, srcVars, fnVars, schedVars, poolVars, workerVars,
          procVars, callerVars, metricsVars, panicked, collectorVars,
          sideVars>>

NoCall == [op |-> "none", arg |-> 0, res |-> 0]

Init ==
    /\ fnKind \in FnKinds
    /\ notWaitNewJobs \in NotWaitValues
    /\ download = <<>> /\ update = <<>>
    /\ downloadClosed = FALSE /\ updateClosed = FALSE
    /\ nextJob = 1
    /\ kind = [j \in Jobs |-> "none"]
    /\ id = [j \in Jobs |-> 0]
    /\ dlNil = FALSE /\ upNil = FALSE
    /\ schedPc = "idle" /\ schedJob = 0 /\ ctxDone = FALSE
    /\ jobs = <<>> /\ jobsClosed = FALSE
    /\ discovered = [j \in Jobs |-> 0]
    /\ workers = <<>> /\ nextWorker = 0 /\ wg = 0 /\ resize = 1
    /\ workersToStop = {}
    /\ wpc = [w \in WorkerIds |-> "none"]
    /\ curJob = [w \in WorkerIds |-> 0]
    /\ stopReq = [w \in WorkerIds |-> "none"]
    /\ stopped = [w \in WorkerIds |-> FALSE]
    /\ cancelClosed = [w \in WorkerIds |-> FALSE]
    /\ cancelInfo = [w \in WorkerIds |-> <<"none", 0, "idle">>]
    /\ jstate = [j \in Jobs |-> "idle"]
    /\ result = [j \in Jobs |-> "none"]
    /\ processed = [j \in Jobs |-> 0]
    /\ success = [j \in Jobs |-> 0]
    /\ fail = [j \in Jobs |-> 0]
    /\ cpc = "idle" /\ cidx = 0 /\ call = NoCall
    /\ ret = NoCall /\ ncalls = 0 /\ ran = FALSE
    /\ metricsStarted = FALSE /\ metricsStop = "none"
    /\ panicked = FALSE
    /\ events = [c \in Collectors |-> [k \in EventKinds |-> <<>>]]
    /\ chanNil = [c \in Collectors |-> [k \in EventKinds |-> FALSE]]
    /\ chClosed = [c \in Collectors |-> FALSE]
    /\ counts = [c \in Collectors |-> NoCounts]
    /\ loopPc = [c \in Collectors |-> "none"]
    /\ stop = [c \in Collectors |-> FALSE]
    /\ batch = [c \in Collectors |-> 0]
    /\ syncTimeout = [c \in Collectors |-> FALSE]
    /\ cwg = [c \in Collectors |-> 0]
    /\ sends = [c \in Collectors |-> 0]
    /\ sendSeen = [c \in Collectors |-> NoCounts]
    /\ sendErr = [c \in Collectors |-> FALSE]
    /\ finalSends = [c \in Collectors |-> 0]
    /\ expected = [c \in Collectors |-> NoCounts]
    /\ accepted = [c \in Collectors |-> 0]
    /\ stopPc = "idle" /\ immediate = FALSE /\ target = Single
    /\ todo = {}
    /\ stopRet = [c \in Collectors |-> "none"]
    /\ mixed = FALSE
    /\ nevents = 0 /\ nstops = 0
    /\ ghOpts = NoOpts
    /\ ghBatch = <<>> /\ retryJobs = <<>>
    /\ startPc = "unbuilt" /\ startRet = "none"
    /\ discPc = "none" /\ discErr = "nil"
    /\ lastIter = NoResult /\ iterCalls = 0
    /\ advCalls = 0 /\ advLast = <<>> /\ advErr = "none"
    /\ ghStop = "idle" /\ ghStopRet = "none" /\ ghStops = 0
    /\ upstream = 0 /\ excludedRepos = {}
    /\ itRepos = <<>> /\ checkpoint = 0 /\ page = 0
    /\ yielded = <<>> /\ itLast = "none" /\ itCalls = 0
    /\ locIDs = <<>> /\ upOpts = [triggerOnce |-> FALSE] /\ queue = <<>>
    /\ upPc = "unbuilt" /\ upRet = "none"
    /\ sweepPc = "none" /\ sweepLocs = <<>> /\ sweepIdx = 1
    /\ sweepErr = "nil" /\ swept = <<>>
    /\ prevLocs = <<>> /\ prevSwept = <<>> /\ received = "none"
    /\ upStop = "idle" /\ upStopRet = "none" /\ upStops = 0 /\ sweeps = 0
    /\ lib = NoLib /\ libJob = NoJob /\ jobPc = "none" /\ jobErr = "none"
    /\ hasSeen = NoHas /\ fetched = <<>> /\ cloned = ""
    /\ rate = NoRate
    /\ batchRepos = <<>> /\ jobQueue = <<>> /\ advIdx = 1 /\ advPc = "none"
    /\ advRet = "none" /\ advSent = <<>>

Running == ~panicked

\* ------------------------------------------------- providers (sources)
\* the source channel(s) the schedule function reads
Sources == IF fnKind = "combined" THEN {"download", "update"} ELSE {fnKind}

\* a provider sends a job on a source channel
Enqueue(q, k) ==
    /\ Running
    /\ q \in Sources
    /\ nextJob <= NJobs
    /\ kind' = [kind EXCEPT ![nextJob] = k]
    /\ nextJob' = nextJob + 1
    /\ IF q = "download"
       THEN ~downloadClosed /\ download' = Append(download, nextJob)
            /\ UNCHANGED update
       ELSE ~updateClosed /\ update' = Append(update, nextJob)
            /\ UNCHANGED download
    /\ UNCHANGED <<downloadClosed, updateClosed>>
    /\ UNCHANGED <<sideVars, collectorVars, cfgVars, fnVars, schedVars, poolVars, workerVars,
                   procVars, callerVars, metricsVars, panicked, collectorVars>>

\* the caller of the providers closes a source channel
CloseSource(q) ==
    /\ Running
    /\ q \in Sources
    /\ IF q = "download"
       THEN ~downloadClosed /\ downloadClosed' = TRUE
            /\ UNCHANGED updateClosed
       ELSE ~updateClosed /\ updateClosed' = TRUE
            /\ UNCHANGED downloadClosed
    /\ UNCHANGED <<download, update, nextJob, kind>>
    /\ UNCHANGED <<sideVars, collectorVars, cfgVars, fnVars, schedVars, poolVars, workerVars,
                   procVars, callerVars, metricsVars, panicked, collectorVars>>

\* ------------------------------------------------- schedule functions
\* setupJob without its case JobUpdate
SetupJobDownloadOnly(j) == kind[j] = JobDownload

\* setupJob: only Download and Update jobs are accepted
SetupJobOk(j) == kind[j] \in {JobDownload, JobUpdate}

\* jobFrom found the job j: the type assertion j.(*Job)
IsLibraryJob(j) == kind[j] # "Foreign"

\* Schedule taking ErrNewJobsNotFound for ErrJobSource
SchedFailCloseAlways(err) ==
    /\ schedJob' = 0
    /\ schedPc' = "returned"
    /\ jobsClosed' = TRUE
    /\ panicked' = jobsClosed

\* what Schedule does with the error of the schedule function:
\* ErrNewJobsNotFound with NotWaitNewJobs: continue; ErrJobSource:
\* close(s.jobs) and return; any other case: back off
SchedFail(err) ==
    /\ schedJob' = 0
    /\ IF err = "notfound" /\ notWaitNewJobs
       THEN schedPc' = "loop" /\ UNCHANGED <<jobsClosed, panicked>>
       ELSE IF err = "source"
            THEN /\ schedPc' = "returned"
                 /\ jobsClosed' = TRUE
                 /\ panicked' = jobsClosed
            ELSE schedPc' = "backoff" /\ UNCHANGED <<jobsClosed, panicked>>

\* the schedule function returns a job: Schedule goes on to send it
SchedGot(j) ==
    /\ schedJob' = j
    /\ schedPc' = "send"
    /\ UNCHANGED <<jobsClosed, panicked>>

\* uuid.NewRandom(): a fresh, non-empty value (the one of job j is j)
NewUUID(j) == j

\* jobFrom assigns a fresh uuid to the job
AssignID(j) == id' = [id EXCEPT ![j] = NewUUID(j)]

\* the caller is blocked in jobScheduler.finish (s.cancel <- struct{}{})
FinishSender == cpc \in {"close_finish", "stop_finish"}

\* Schedule, top of the loop: no cancel is ready, the default branch builds
\* the context and calls the schedule function
SchedLoop ==
    /\ Running
    /\ schedPc = "loop"
    /\ ~FinishSender
    /\ schedPc' = "call"
    /\ ctxDone' = FALSE
    /\ UNCHANGED <<id, dlNil, upNil, schedJob>>
    /\ UNCHANGED <<jobs, jobsClosed, discovered>>
    /\ UNCHANGED <<sideVars, collectorVars, cfgVars, srcVars, poolVars, workerVars, procVars,
                   callerVars, metricsVars, panicked>>

\* NewDownloadJobScheduleFn / NewUpdateJobScheduleFn: jobFrom on the one
\* source; the job is returned whatever its Type
ScheduleSingle ==
    /\ Running
    /\ schedPc = "call"
    /\ fnKind \in {"download", "update"}
    /\ LET q == IF fnKind = "download" THEN download ELSE update
           closed == IF fnKind = "download" THEN downloadClosed
                     ELSE updateClosed
       IN  IF Len(q) > 0
           THEN /\ IF fnKind = "download"
                   THEN download' = Tail(q) /\ UNCHANGED update
                   ELSE update' = Tail(q) /\ UNCHANGED download
                /\ IF IsLibraryJob(Head(q))
                   THEN AssignID(Head(q)) /\ SchedGot(Head(q))
                   ELSE SchedFail("wrong") /\ UNCHANGED id
           ELSE /\ UNCHANGED <<download, update, id>>
                /\ IF closed THEN SchedFail("source")
                   ELSE SchedFail("notfound")
    /\ UNCHANGED <<downloadClosed, updateClosed, nextJob, kind>>
    /\ UNCHANGED <<dlNil, upNil, ctxDone, jobs, discovered>>
    /\ UNCHANGED <<sideVars, collectorVars, cfgVars, poolVars, workerVars, procVars, callerVars,
                   metricsVars>>

\* NewJobScheduleFn, first half: the download source
ScheduleDownload ==
    /\ Running
    /\ schedPc = "call"
    /\ fnKind = "combined"
    /\ IF dlNil /\ upNil
       THEN SchedFail("source")
            /\ UNCHANGED <<download, id, dlNil, ctxDone>>
       ELSE IF dlNil
       THEN /\ schedPc' = "up"
            /\ UNCHANGED <<download, id, dlNil, ctxDone, schedJob,
                           jobsClosed, panicked>>
       ELSE IF Len(download) > 0
       THEN /\ download' = Tail(download)
            /\ UNCHANGED <<dlNil, ctxDone>>
            /\ IF ~IsLibraryJob(Head(download))
               THEN SchedFail("wrong") /\ UNCHANGED id
               ELSE /\ AssignID(Head(download))
                    /\ IF SetupJobOk(Head(download))
                       THEN SchedGot(Head(download))
                       ELSE SchedFail("notfound")
       ELSE /\ schedPc' = "up"
            /\ dlNil' = downloadClosed
            /\ ctxDone' = ~downloadClosed
            /\ UNCHANGED <<download, id, schedJob, jobsClosed,
                           panicked>>
    /\ UNCHANGED <<update, downloadClosed, updateClosed, nextJob, kind>>
    /\ UNCHANGED <<upNil, jobs, discovered>>
    /\ UNCHANGED <<sideVars, collectorVars, cfgVars, poolVars, workerVars, procVars, callerVars,
                   metricsVars>>

\* NewJobScheduleFn, second half: the update source, under the same context
ScheduleUpdate ==
    /\ Running
    /\ schedPc = "up"
    /\ IF upNil
       THEN /\ SchedFail(IF dlNil THEN "source" ELSE "notfound")
            /\ UNCHANGED <<update, id, upNil>>
       ELSE \/ /\ Len(update) > 0
               /\ update' = Tail(update)
               /\ UNCHANGED upNil
               /\ IF ~IsLibraryJob(Head(update))
                  THEN SchedFail("notfound") /\ UNCHANGED id
                  ELSE /\ AssignID(Head(update))
                       /\ IF SetupJobOk(Head(update))
                          THEN SchedGot(Head(update))
                          ELSE SchedFail("notfound")
            \/ /\ Len(update) = 0 /\ updateClosed
               /\ upNil' = TRUE
               /\ SchedFail("notfound")
               /\ UNCHANGED <<update, id>>
            \/ /\ ctxDone \/ (Len(update) = 0 /\ ~updateClosed)
               /\ SchedFail("notfound")
               /\ UNCHANGED <<update, id, upNil>>
    /\ UNCHANGED <<download, downloadClosed, updateClosed, nextJob, kind>>
    /\ UNCHANGED <<dlNil, ctxDone, jobs, discovered>>
    /\ UNCHANGED <<sideVars, collectorVars, cfgVars, poolVars, workerVars, procVars, callerVars,
                   metricsVars>>

\* Schedule without s.opts.Metrics.Discover(job)
SchedSendNoDiscover ==
    /\ Running
    /\ schedPc = "send"
    /\ ~jobsClosed
    /\ Len(jobs) < JobsCap
    /\ jobs' = Append(jobs, schedJob)
    /\ schedPc' = "loop"
    /\ UNCHANGED <<jobsClosed, discovered, panicked>>
    /\ UNCHANGED <<sideVars, collectorVars, cfgVars, srcVars, fnVars, poolVars, workerVars, procVars,
                   callerVars, metricsVars>>

\* Schedule: s.jobs <- job (the other branch of the select is SchedCancel),
\* then s.backoff.Reset() and s.opts.Metrics.Discover(job)
SchedSend ==
    /\ Running
    /\ schedPc = "send"
    /\ IF jobsClosed
       THEN panicked' = TRUE /\ UNCHANGED <<jobs, schedPc, discovered>>
       ELSE /\ Len(jobs) < JobsCap
            /\ jobs' = Append(jobs, schedJob)
            /\ discovered' = [discovered EXCEPT ![schedJob] = @ + 1]
            /\ schedPc' = "loop"
            /\ UNCHANGED panicked
    /\ UNCHANGED jobsClosed
    /\ UNCHANGED <<sideVars, collectorVars, cfgVars, srcVars, fnVars, poolVars, workerVars, procVars,
                   callerVars, metricsVars>>

\* Schedule: time.After(s.backoff.Duration()) fires
SchedBackoff ==
    /\ Running
    /\ schedPc = "backoff"
    /\ schedPc' = "loop"
    /\ UNCHANGED <<jobs, jobsClosed, discovered>>
    /\ UNCHANGED <<sideVars, collectorVars, cfgVars, srcVars, fnVars, poolVars, workerVars, procVars,
                   callerVars, metricsVars, panicked>>

\* ------------------------------------------------------------- worker
\* Start returns (deferred cancel of the context) and the goroutine of
\* WorkerPool.add calls wp.wg.Done()
WorkerExit(w, closeCancel) ==
    /\ wpc' = [wpc EXCEPT ![w] = "exited"]
    /\ cancelClosed' = [cancelClosed EXCEPT ![w] = closeCancel]
    /\ wg' = wg - 1

\* consumeJob, first select, case <-w.cancel: the blocked Stop call hands
\* over its value and sets w.stopped; errWorkerStopped closes w.cancel
WorkerCancelIdle(w) ==
    /\ Running
    /\ wpc[w] = "select1"
    /\ stopReq[w] # "none"
    /\ cancelInfo' = [cancelInfo EXCEPT ![w] = <<stopReq[w], 0, "idle">>]
    /\ stopReq' = [stopReq EXCEPT ![w] = "none"]
    /\ stopped' = [stopped EXCEPT ![w] = TRUE]
    /\ WorkerExit(w, TRUE)
    /\ UNCHANGED <<workers, nextWorker, resize, workersToStop, curJob>>
    /\ UNCHANGED <<sideVars, collectorVars, cfgVars, srcVars, fnVars, schedVars, procVars,
                   callerVars, metricsVars, panicked>>

\* consumeJob, first select, case job, ok := <-w.jobs with ok: the
\* goroutine that calls job.Process is spawned
WorkerTake(w) ==
    /\ Running
    /\ wpc[w] = "select1"
    /\ Len(jobs) > 0
    /\ jobs' = Tail(jobs)
    /\ curJob' = [curJob EXCEPT ![w] = Head(jobs)]
    /\ jstate' = [jstate EXCEPT ![Head(jobs)] = "processing"]
    /\ processed' = [processed EXCEPT ![Head(jobs)] = @ + 1]
    /\ wpc' = [wpc EXCEPT ![w] = "select2"]
    /\ UNCHANGED <<schedPc, jobsClosed, discovered>>
    /\ UNCHANGED <<result, success, fail>>
    /\ UNCHANGED <<stopReq, stopped, cancelClosed, cancelInfo>>
    /\ UNCHANGED <<sideVars, collectorVars, cfgVars, srcVars, fnVars, poolVars, callerVars,
                   metricsVars, panicked>>

\* consumeJob, first select, case job, ok := <-w.jobs with !ok:
\* errJobsClosed closes w.cancel
WorkerJobsClosed(w) ==
    /\ Running
    /\ wpc[w] = "select1"
    /\ Len(jobs) = 0 /\ jobsClosed
    /\ WorkerExit(w, TRUE)
    /\ UNCHANGED <<workers, nextWorker, resize, workersToStop>>
    /\ UNCHANGED <<curJob, stopReq, stopped, cancelInfo>>
    /\ UNCHANGED <<sideVars, collectorVars, cfgVars, srcVars, fnVars, schedVars, procVars,
                   callerVars, metricsVars, panicked>>

\* the second select without the if !now { <-done }
AfterCancelNoWait(now) == "exit"

\* what the worker does after case now := <-w.cancel of the second select:
\* wait for done unless now
AfterCancel(now) == IF now THEN "exit" ELSE "waitdone"

\* consumeJob, second select, case now := <-w.cancel
WorkerCancelBusy(w) ==
    /\ Running
    /\ wpc[w] = "select2"
    /\ stopReq[w] # "none"
    /\ cancelInfo' = [cancelInfo EXCEPT
                       ![w] = <<stopReq[w], curJob[w], jstate[curJob[w]]>>]
    /\ stopReq' = [stopReq EXCEPT ![w] = "none"]
    /\ stopped' = [stopped EXCEPT ![w] = TRUE]
    /\ IF AfterCancel(stopReq[w] = "immediate") = "exit"
       THEN WorkerExit(w, TRUE)
       ELSE /\ wpc' = [wpc EXCEPT ![w] = "waitdone"]
            /\ UNCHANGED <<cancelClosed, wg>>
    /\ UNCHANGED <<workers, nextWorker, resize, workersToStop, curJob>>
    /\ UNCHANGED <<sideVars, collectorVars, cfgVars, srcVars, fnVars, schedVars, procVars,
                   callerVars, metricsVars, panicked>>

\* consumeJob, second select, case <-done: back to the first select
WorkerDone(w) ==
    /\ Running
    /\ wpc[w] = "select2"
    /\ jstate[curJob[w]] = "done"
    /\ wpc' = [wpc EXCEPT ![w] = "select1"]
    /\ UNCHANGED <<curJob, stopReq, stopped, cancelClosed, cancelInfo>>
    /\ UNCHANGED <<sideVars, collectorVars, cfgVars, srcVars, fnVars, schedVars, poolVars, procVars,
                   callerVars, metricsVars, panicked>>

\* consumeJob, <-done after a cancel with now = false
WorkerWaitDone(w) ==
    /\ Running
    /\ wpc[w] = "waitdone"
    /\ jstate[curJob[w]] = "done"
    /\ WorkerExit(w, TRUE)
    /\ UNCHANGED <<workers, nextWorker, resize, workersToStop>>
    /\ UNCHANGED <<curJob, stopReq, stopped, cancelInfo>>
    /\ UNCHANGED <<sideVars, collectorVars, cfgVars, srcVars, fnVars, schedVars, procVars,
                   callerVars, metricsVars, panicked>>

\* Worker.Stop: w.cancel <- immediate on a closed channel panics
SendOnClosedCancel(w) ==
    /\ Running
    /\ stopReq[w] # "none"
    /\ cancelClosed[w]
    /\ panicked' = TRUE
    /\ UNCHANGED <<sideVars, collectorVars, cfgVars, srcVars, fnVars, schedVars, poolVars,
                   workerVars, procVars, callerVars, metricsVars>>

\* ------------------------------------- the goroutine that runs Process
\* the goroutine without its error branch
MetricsEventNoFail(r) == "Success"

\* the metrics call the goroutine makes for what Process returned
MetricsEvent(r) == IF r = "error" THEN "Fail" ELSE "Success"

\* job.Process(ctx) returns nil or an error; w.metrics.Fail(job) or
\* w.metrics.Success(job); the deferred close(done)
ProcessReturns(j, r) ==
    /\ Running
    /\ jstate[j] = "processing"
    /\ result' = [result EXCEPT ![j] = r]
    /\ IF MetricsEvent(r) = "Fail"
       THEN fail' = [fail EXCEPT ![j] = @ + 1] /\ UNCHANGED success
       ELSE success' = [success EXCEPT ![j] = @ + 1] /\ UNCHANGED fail
    /\ jstate' = [jstate EXCEPT ![j] = "done"]
    /\ UNCHANGED processed
    /\ UNCHANGED <<sideVars, collectorVars, cfgVars, srcVars, fnVars, schedVars, poolVars,
                   workerVars, callerVars, metricsVars, panicked>>

\* ------------------------------------------------------- worker pool
\* the call in progress returns
Return(op, arg, res) ==
    /\ cpc' = "idle"
    /\ call' = NoCall
    /\ ret' = [op |-> op, arg |-> arg, res |-> res]

\* Run: go Metrics.Start(); go scheduler.Schedule()
Run ==
    /\ Running
    /\ ~ran
    /\ cpc = "idle" /\ ncalls < MaxCalls
    /\ ncalls' = ncalls + 1
    /\ ran' = TRUE
    /\ metricsStarted' = TRUE
    /\ schedPc' = "loop"
    /\ Return("Run", 0, 0)
    /\ UNCHANGED <<cidx, metricsStop, jobs, jobsClosed, discovered>>
    /\ UNCHANGED <<sideVars, collectorVars, cfgVars, srcVars, fnVars, poolVars, workerVars,
                   procVars, panicked>>

\* Size: len(wp.workers) under the resize token
Size ==
    /\ Running
    /\ cpc = "idle" /\ ncalls < MaxCalls
    /\ resize = 1
    /\ ncalls' = ncalls + 1
    /\ Return("Size", 0, Len(workers))
    /\ UNCHANGED <<cidx, ran>>
    /\ UNCHANGED <<sideVars, collectorVars, cfgVars, srcVars, fnVars, schedVars, poolVars,
                   workerVars, procVars, metricsVars, panicked>>

\* SetWorkers: n < 0 is taken as 0
Clamp(n) == IF n < 0 THEN 0 ELSE n

\* add(n): wp.wg.Add(n), n new workers appended, their goroutines spawned.
\* Start finds w.stopped false (Stop sets it only after a send that the
\* worker has received) and enters consumeJob
Add(n) ==
    /\ nextWorker + n <= MaxWorkers
    /\ wg' = wg + n
    /\ workers' = workers \o [i \in 1..n |-> nextWorker + i]
    /\ nextWorker' = nextWorker + n
    /\ wpc' = [w \in WorkerIds |->
                 IF w \in (nextWorker + 1)..(nextWorker + n)
                 THEN "select1" ELSE wpc[w]]
    /\ UNCHANGED <<workersToStop, stopReq>>

\* remove(n): the workers it stops are the last n of wp.workers
ToStop(n) == {workers[x] : x \in (Len(workers) - n + 1)..Len(workers)}

\* remove(n) without wp.workers = wp.workers[:i]
RemoveNoCut(n) ==
    /\ workersToStop' = ToStop(n)
    /\ stopReq' = [w \in WorkerIds |->
                     IF w \in ToStop(n) /\ ~stopped[w]
                     THEN "graceful" ELSE stopReq[w]]
    /\ UNCHANGED <<workers, wg, nextWorker, wpc>>

\* remove(n): a goroutine per worker calls stop(false) (a worker already
\* stopped is skipped by Stop), wp.workers is cut
Remove(n) ==
    /\ workersToStop' = ToStop(n)
    /\ stopReq' = [w \in WorkerIds |->
                     IF w \in ToStop(n) /\ ~stopped[w]
                     THEN "graceful" ELSE stopReq[w]]
    /\ workers' = SubSeq(workers, 1, Len(workers) - n)
    /\ UNCHANGED <<wg, nextWorker, wpc>>

\* the body of SetWorkers(n) up to the wait of remove; next is the position
\* of the caller when nothing has to be waited for
Resize(n, op, next) ==
    LET diff == Clamp(n) - Len(workers) IN
    /\ resize = 1
    /\ IF diff = 0
       THEN /\ UNCHANGED <<workers, nextWorker, wg, workersToStop, wpc,
                           stopReq, resize>>
            /\ IF next = "idle"
               THEN Return(op, n, 0)
               ELSE cpc' = next /\ UNCHANGED ret
       ELSE IF diff > 0
       THEN /\ Add(diff)
            /\ UNCHANGED resize
            /\ IF next = "idle"
               THEN Return(op, n, 0)
               ELSE cpc' = next /\ UNCHANGED ret
       ELSE /\ Remove(-diff)
            /\ resize' = 0
            /\ cpc' = "remove_wait"
            /\ UNCHANGED ret

\* SetWorkers(n)
SetWorkers(n) ==
    /\ Running
    /\ cpc = "idle" /\ ncalls < MaxCalls
    /\ ncalls' = ncalls + 1
    /\ Resize(n, "SetWorkers", "idle")
    /\ call' = IF cpc' = "idle" THEN NoCall
               ELSE [op |-> "SetWorkers", arg |-> n, res |-> 0]
    /\ UNCHANGED <<cidx, ran>>
    /\ UNCHANGED <<curJob, stopped, cancelClosed, cancelInfo>>
    /\ UNCHANGED <<sideVars, collectorVars, cfgVars, srcVars, fnVars, schedVars, procVars,
                   metricsVars, panicked>>

\* remove without its wg.Wait()
RemoveNoWait ==
    /\ Running
    /\ cpc = "remove_wait"
    /\ resize' = 1
    /\ IF call.op = "SetWorkers"
       THEN Return("SetWorkers", call.arg, 0)
       ELSE cpc' = "close_wg" /\ UNCHANGED <<call, ret>>
    /\ UNCHANGED <<cidx, ncalls, ran>>
    /\ UNCHANGED <<workers, nextWorker, wg, workersToStop>>
    /\ UNCHANGED <<sideVars, collectorVars, cfgVars, srcVars, fnVars, schedVars, workerVars,
                   procVars, metricsVars, panicked>>

\* remove: wg.Wait() returns when every stop(false) call has returned; the
\* resize token is given back
RemoveWait ==
    /\ Running
    /\ cpc = "remove_wait"
    /\ \A w \in workersToStop : stopReq[w] = "none"
    /\ resize' = 1
    /\ IF call.op = "SetWorkers"
       THEN Return("SetWorkers", call.arg, 0)
       ELSE cpc' = "close_wg" /\ UNCHANGED <<call, ret>>
    /\ UNCHANGED <<cidx, ncalls, ran>>
    /\ UNCHANGED <<workers, nextWorker, wg, workersToStop>>
    /\ UNCHANGED <<sideVars, collectorVars, cfgVars, srcVars, fnVars, schedVars, workerVars,
                   procVars, metricsVars, panicked>>

\* Wait is called; the number of workers the pool holds is kept
Wait ==
    /\ Running
    /\ cpc = "idle" /\ ncalls < MaxCalls
    /\ ncalls' = ncalls + 1
    /\ call' = [op |-> "Wait", arg |-> Len(workers), res |-> 0]
    /\ cpc' = "wait_wg"
    /\ UNCHANGED <<cidx, ret, ran>>
    /\ UNCHANGED <<sideVars, collectorVars, cfgVars, srcVars, fnVars, schedVars, poolVars,
                   workerVars, procVars, metricsVars, panicked>>

\* Wait without its wp.wg.Wait()
WaitNoWg ==
    /\ Running
    /\ cpc = "wait_wg"
    /\ workers' = <<>>
    /\ metricsStop' = "graceful"
    /\ Return("Wait", call.arg, 0)
    /\ UNCHANGED <<cidx, ncalls, ran, metricsStarted>>
    /\ UNCHANGED <<nextWorker, wg, resize, workersToStop>>
    /\ UNCHANGED <<sideVars, collectorVars, cfgVars, srcVars, fnVars, schedVars, workerVars,
                   procVars, panicked>>

\* Wait: wp.wg.Wait() returns; wp.workers = nil; Metrics.Stop(false)
WaitDone ==
    /\ Running
    /\ cpc = "wait_wg"
    /\ wg = 0
    /\ workers' = <<>>
    /\ metricsStop' = "graceful"
    /\ Return("Wait", call.arg, 0)
    /\ UNCHANGED <<cidx, ncalls, ran, metricsStarted>>
    /\ UNCHANGED <<nextWorker, wg, resize, workersToStop>>
    /\ UNCHANGED <<sideVars, collectorVars, cfgVars, srcVars, fnVars, schedVars, workerVars,
                   procVars, panicked>>

\* Close is called: SetWorkers(0)
Close ==
    /\ Running
    /\ cpc = "idle" /\ ncalls < MaxCalls
    /\ ncalls' = ncalls + 1
    /\ call' = [op |-> "Close", arg |-> Len(workers), res |-> 0]
    /\ Resize(0, "Close", "close_wg")
    /\ UNCHANGED <<cidx, ran>>
    /\ UNCHANGED <<curJob, stopped, cancelClosed, cancelInfo>>
    /\ UNCHANGED <<sideVars, collectorVars, cfgVars, srcVars, fnVars, schedVars, procVars,
                   metricsVars, panicked>>

\* Close without its wp.wg.Wait()
CloseNoWait ==
    /\ Running
    /\ cpc = "close_wg"
    /\ cpc' = "close_finish"
    /\ UNCHANGED <<cidx, call, ret, ncalls, ran>>
    /\ UNCHANGED <<sideVars, collectorVars, cfgVars, srcVars, fnVars, schedVars, poolVars,
                   workerVars, procVars, metricsVars, panicked>>

\* Close: wp.wg.Wait() returns; the caller goes on to scheduler.finish()
CloseWait ==
    /\ Running
    /\ cpc = "close_wg"
    /\ wg = 0
    /\ cpc' = "close_finish"
    /\ UNCHANGED <<cidx, call, ret, ncalls, ran>>
    /\ UNCHANGED <<sideVars, collectorVars, cfgVars, srcVars, fnVars, schedVars, poolVars,
                   workerVars, procVars, metricsVars, panicked>>

\* Stop is called: the resize token is taken, the loop over wp.workers
\* starts
Stop ==
    /\ Running
    /\ cpc = "idle" /\ ncalls < MaxCalls
    /\ resize = 1
    /\ ncalls' = ncalls + 1
    /\ call' = [op |-> "Stop", arg |-> Len(workers), res |-> 0]
    /\ resize' = 0
    /\ cidx' = 1
    /\ cpc' = "stop_loop"
    /\ UNCHANGED <<ret, ran>>
    /\ UNCHANGED <<workers, nextWorker, wg, workersToStop>>
    /\ UNCHANGED <<sideVars, collectorVars, cfgVars, srcVars, fnVars, schedVars, workerVars,
                   procVars, metricsVars, panicked>>

\* Stop: w.stop(true) for the next worker of wp.workers (skipped when the
\* worker is already stopped), or the end of the loop
StopNext ==
    /\ Running
    /\ cpc = "stop_loop"
    /\ IF cidx > Len(workers)
       THEN cpc' = "stop_wg" /\ UNCHANGED <<cidx, stopReq>>
       ELSE IF stopped[workers[cidx]]
       THEN cidx' = cidx + 1 /\ UNCHANGED <<cpc, stopReq>>
       ELSE /\ stopReq' = [stopReq EXCEPT ![workers[cidx]] = "immediate"]
            /\ cpc' = "stop_send"
            /\ UNCHANGED cidx
    /\ UNCHANGED <<call, ret, ncalls, ran>>
    /\ UNCHANGED <<wpc, curJob, stopped, cancelClosed, cancelInfo>>
    /\ UNCHANGED <<sideVars, collectorVars, cfgVars, srcVars, fnVars, schedVars, poolVars, procVars,
                   metricsVars, panicked>>

\* Stop: the worker has received the cancel, w.stop(true) returns
StopSent ==
    /\ Running
    /\ cpc = "stop_send"
    /\ stopReq[workers[cidx]] = "none"
    /\ cidx' = cidx + 1
    /\ cpc' = "stop_loop"
    /\ UNCHANGED <<call, ret, ncalls, ran>>
    /\ UNCHANGED <<sideVars, collectorVars, cfgVars, srcVars, fnVars, schedVars, poolVars,
                   workerVars, procVars, metricsVars, panicked>>

\* Stop: wp.wg.Wait() returns; wp.workers = nil; the caller goes on to
\* scheduler.finish()
StopWait ==
    /\ Running
    /\ cpc = "stop_wg"
    /\ wg = 0
    /\ workers' = <<>>
    /\ cpc' = "stop_finish"
    /\ UNCHANGED <<cidx, call, ret, ncalls, ran>>
    /\ UNCHANGED <<nextWorker, wg, resize, workersToStop>>
    /\ UNCHANGED <<sideVars, collectorVars, cfgVars, srcVars, fnVars, schedVars, workerVars,
                   procVars, metricsVars, panicked>>

\* finish: s.cancel <- struct{}{} meets a select of Schedule that receives
\* from s.cancel (top of the loop, back-off, send); Schedule returns and
\* drops the job it may hold.  The caller goes on: Close calls
\* Metrics.Stop(false) and returns; Stop calls Metrics.Stop(true), gives the
\* resize token back and returns
SchedCancel ==
    /\ Running
    /\ FinishSender
    /\ schedPc \in {"loop", "backoff", "send"}
    /\ schedPc' = "returned"
    /\ IF cpc = "close_finish"
       THEN /\ metricsStop' = "graceful"
            /\ Return("Close", call.arg, 0)
            /\ UNCHANGED resize
       ELSE /\ metricsStop' = "immediate"
            /\ resize' = 1
            /\ Return("Stop", call.arg, 0)
    /\ UNCHANGED <<cidx, ncalls, ran, metricsStarted>>
    /\ UNCHANGED <<jobs, jobsClosed, discovered>>
    /\ UNCHANGED <<workers, nextWorker, wg, workersToStop>>
    /\ UNCHANGED <<sideVars, collectorVars, cfgVars, srcVars, fnVars, workerVars, procVars, panicked>>

\* ------------------------------------------------------ specification
Providers ==
    \/ \E q \in {"download", "update"}, k \in JobKinds : Enqueue(q, k)
    \/ \E q \in {"download", "update"} : CloseSource(q)

Scheduler ==
    \/ SchedLoop
    \/ ScheduleSingle
    \/ ScheduleDownload
    \/ ScheduleUpdate
    \/ SchedSend
    \/ SchedBackoff

Worker(w) ==
    \/ WorkerCancelIdle(w)
    \/ WorkerTake(w)
    \/ WorkerJobsClosed(w)
    \/ WorkerCancelBusy(w)
    \/ WorkerDone(w)
    \/ WorkerWaitDone(w)

Processing ==
    \E j \in Jobs : \E r \in {"nil", "error"} : ProcessReturns(j, r)

CallerStarts ==
    \/ Run
    \/ Size
    \/ \E n \in SetArgs : SetWorkers(n)
    \/ Wait
    \/ Close
    \/ Stop

CallerGoesOn ==
    \/ RemoveWait
    \/ WaitDone
    \/ CloseWait
    \/ StopNext
    \/ StopSent
    \/ StopWait

Panics == \E w \in WorkerIds : SendOnClosedCancel(w)

Next ==
    \/ Providers
    \/ Scheduler
    \/ \E w \in WorkerIds : Worker(w)
    \/ Processing
    \/ CallerStarts
    \/ CallerGoesOn
    \/ SchedCancel
    \/ Panics

Spec == Init /\ [][Next]_vars

\* ------------------------------------------ metrics.Collector: the loop
\* everything of the pool
corePool == <<cfgVars, srcVars, fnVars, schedVars, poolVars, workerVars,
              procVars, callerVars, metricsVars>>

\* everything of the pool and of the providers, which the collectors leave
\* alone
poolState == <<corePool, sideVars>>

ModifyMetricsPerJob(cnt, job, k) ==
    CASE k = "success" ->
             IF job.type = JobDownload
             THEN [cnt EXCEPT !.download = @ + 1]
             ELSE [cnt EXCEPT !.update = @ + 1]
      [] k = "fail" -> [cnt EXCEPT !.fail = @ + 1]
      [] k = "discover" -> [cnt EXCEPT !.discover = @ + 1]

\* Collector.modifyMetrics
ModifyMetrics(cnt, job, k) ==
    CASE k = "success" ->
             IF job.type = JobDownload
             THEN [cnt EXCEPT !.download = @ + 1]
             ELSE [cnt EXCEPT !.update = @ + Len(job.eps)]
      [] k = "fail" -> [cnt EXCEPT !.fail = @ + Len(job.eps)]
      [] k = "discover" ->
             IF job.type = JobDownload
             THEN [cnt EXCEPT !.discover = @ + 1]
             ELSE cnt

SendMetricOver(b, elapsed) ==
    LET fullBatch == b > BatchSize
    IN fullBatch \/ (elapsed /\ b > 0)

\* Collector.sendMetric
SendMetric(b, elapsed) ==
    LET fullBatch == b >= BatchSize
    IN fullBatch \/ (elapsed /\ b > 0)

IsClosedAny(nil) == \E k \in EventKinds : nil[k]

\* Collector.isClosed
IsClosed(nil) == \A k \in EventKinds : nil[k]

FlushResetsOnError(c, b, cnt, ok) ==
    IF SendMetric(b, syncTimeout[c])
    THEN /\ sends' = [sends EXCEPT ![c] = @ + 1]
         /\ sendSeen' = [sendSeen EXCEPT ![c] = cnt]
         /\ sendErr' = [sendErr EXCEPT ![c] = ~ok]
         /\ batch' = [batch EXCEPT ![c] = 0]
         /\ syncTimeout' = [syncTimeout EXCEPT ![c] = FALSE]
    ELSE /\ batch' = [batch EXCEPT ![c] = b]
         /\ UNCHANGED <<sends, sendSeen, sendErr, syncTimeout>>

FlushKeepsBatch(c, b, cnt, ok) ==
    IF SendMetric(b, syncTimeout[c])
    THEN /\ sends' = [sends EXCEPT ![c] = @ + 1]
         /\ sendSeen' = [sendSeen EXCEPT ![c] = cnt]
         /\ sendErr' = [sendErr EXCEPT ![c] = ~ok]
         /\ batch' = [batch EXCEPT ![c] = b]
         /\ syncTimeout' = [syncTimeout EXCEPT ![c] = IF ok THEN FALSE ELSE @]
    ELSE /\ batch' = [batch EXCEPT ![c] = b]
         /\ UNCHANGED <<sends, sendSeen, sendErr, syncTimeout>>

\* Start: the end of an iteration, "if c.sendMetric(batch, lastSent)": Send
\* is given the collector, whose counters are cnt; ok is what Send returns
Flush(c, b, cnt, ok) ==
    IF SendMetric(b, syncTimeout[c])
    THEN /\ sends' = [sends EXCEPT ![c] = @ + 1]
         /\ sendSeen' = [sendSeen EXCEPT ![c] = cnt]
         /\ sendErr' = [sendErr EXCEPT ![c] = ~ok]
         /\ batch' = [batch EXCEPT ![c] = IF ok THEN 0 ELSE b]
         /\ syncTimeout' = [syncTimeout EXCEPT ![c] = IF ok THEN FALSE ELSE @]
    ELSE /\ batch' = [batch EXCEPT ![c] = b]
         /\ UNCHANGED <<sends, sendSeen, sendErr, syncTimeout>>

\* Start, up to the loop: wg.Add(1), lastSent = time.Now()
Begin(c) ==
    /\ Running
    /\ loopPc[c] = "none"
    /\ loopPc' = [loopPc EXCEPT ![c] = "select"]
    /\ cwg' = [cwg EXCEPT ![c] = @ + 1]
    /\ UNCHANGED <<poolState, panicked, driverVars, events, chanNil, chClosed,
                   counts, stop, batch, syncTimeout, sends, sendSeen, sendErr,
                   finalSends>>

\* the clock: opts.SyncTime has gone by since lastSent
Tick(c) ==
    /\ Running
    /\ loopPc[c] = "select"
    /\ ~syncTimeout[c]
    /\ syncTimeout' = [syncTimeout EXCEPT ![c] = TRUE]
    /\ UNCHANGED <<poolState, panicked, driverVars, events, chanNil, chClosed,
                   counts, loopPc, stop, batch, cwg, sends, sendSeen, sendErr,
                   finalSends>>

\* Start: one iteration whose select receives from an event channel.  A
\* closed and empty channel gives !ok: the field is set to nil.  Otherwise
\* the job is absorbed (the events carry *library.Job values only).
LoopRecv(c, k, ok) ==
    /\ Running
    /\ loopPc[c] = "select"
    /\ ~chanNil[c][k]
    /\ IF events[c][k] # <<>>
       THEN LET job == Head(events[c][k])
                cnt == ModifyMetrics(counts[c], job, k)
            IN /\ events' = [events EXCEPT ![c][k] = Tail(@)]
               /\ counts' = [counts EXCEPT ![c] = cnt]
               /\ Flush(c, batch[c] + 1, cnt, ok)
               /\ UNCHANGED chanNil
       ELSE /\ chClosed[c]
            /\ chanNil' = [chanNil EXCEPT ![c][k] = TRUE]
            /\ UNCHANGED <<events, counts, batch, syncTimeout, sends,
                           sendSeen, sendErr>>
    /\ loopPc' = [loopPc EXCEPT ![c] =
                     IF IsClosed(chanNil'[c]) \/ stop[c] THEN "after"
                     ELSE "select"]
    /\ UNCHANGED <<poolState, panicked, driverVars, chClosed, stop, cwg,
                   finalSends>>

LoopCancelNoDrain(c) ==
    /\ Running
    /\ loopPc[c] = "select"
    /\ stopPc = "send" /\ target = c
    /\ ~chClosed[c]
    /\ stop' = [stop EXCEPT ![c] = immediate]
    /\ chClosed' = [chClosed EXCEPT ![c] = TRUE]
    /\ stopPc' = "wait"
    /\ loopPc' = [loopPc EXCEPT ![c] = "after"]
    /\ UNCHANGED <<poolState, panicked, expected, accepted, immediate, target,
                   todo, stopRet, mixed, nevents, nstops, events, chanNil,
                   counts, batch, syncTimeout, cwg, sends, sendSeen, sendErr,
                   finalSends>>

\* Start: "case stop = <-c.cancel", the rendezvous with Stop, and c.close()
LoopCancel(c) ==
    /\ Running
    /\ loopPc[c] = "select"
    /\ stopPc = "send" /\ target = c
    /\ ~chClosed[c]
    /\ stop' = [stop EXCEPT ![c] = immediate]
    /\ chClosed' = [chClosed EXCEPT ![c] = TRUE]
    /\ stopPc' = "wait"
    /\ loopPc' = [loopPc EXCEPT ![c] =
                     IF IsClosed(chanNil[c]) \/ immediate THEN "after"
                     ELSE "select"]
    /\ UNCHANGED <<poolState, panicked, expected, accepted, immediate, target,
                   todo, stopRet, mixed, nevents, nstops, events, chanNil,
                   counts, batch, syncTimeout, cwg, sends, sendSeen, sendErr,
                   finalSends>>

\* Start: "case <-time.After(waitTimeout)": no job, only the flush test.  A
\* closed channel is ready at once, so the timer cannot win after close().
LoopTimeout(c, ok) ==
    /\ Running
    /\ loopPc[c] = "select"
    /\ ~chClosed[c]
    /\ sends[c] < MaxSends
    /\ Flush(c, batch[c], counts[c], ok)
    /\ UNCHANGED <<poolState, panicked, driverVars, events, chanNil, chClosed,
                   counts, loopPc, stop, cwg, finalSends>>

LoopEndAlwaysSend(c, ok) ==
    /\ Running
    /\ loopPc[c] = "after"
    /\ IF batch[c] > 0
       THEN /\ sends' = [sends EXCEPT ![c] = @ + 1]
            /\ sendSeen' = [sendSeen EXCEPT ![c] = counts[c]]
            /\ sendErr' = [sendErr EXCEPT ![c] = ~ok]
            /\ finalSends' = [finalSends EXCEPT ![c] = @ + 1]
       ELSE UNCHANGED <<sends, sendSeen, sendErr, finalSends>>
    /\ cwg' = [cwg EXCEPT ![c] = @ - 1]
    /\ loopPc' = [loopPc EXCEPT ![c] = "done"]
    /\ UNCHANGED <<poolState, panicked, driverVars, events, chanNil, chClosed,
                   counts, stop, batch, syncTimeout>>

\* Start, after the loop: the last Send (its error is only logged), then the
\* deferred wg.Done()
LoopEnd(c, ok) ==
    /\ Running
    /\ loopPc[c] = "after"
    /\ IF batch[c] > 0 /\ ~stop[c]
       THEN /\ sends' = [sends EXCEPT ![c] = @ + 1]
            /\ sendSeen' = [sendSeen EXCEPT ![c] = counts[c]]
            /\ sendErr' = [sendErr EXCEPT ![c] = ~ok]
            /\ finalSends' = [finalSends EXCEPT ![c] = @ + 1]
       ELSE UNCHANGED <<sends, sendSeen, sendErr, finalSends>>
    /\ cwg' = [cwg EXCEPT ![c] = @ - 1]
    /\ loopPc' = [loopPc EXCEPT ![c] = "done"]
    /\ UNCHANGED <<poolState, panicked, driverVars, events, chanNil, chClosed,
                   counts, stop, batch, syncTimeout>>

\* what opts.Send may return (TRUE: nil), and what the default Send that
\* NewCollector installs returns
SendResults == BOOLEAN
DefaultSend == {TRUE}

\* the Start goroutine of one collector whose opts.Send returns a value of rs
Loop(c, rs) ==
    \/ Begin(c)
    \/ Tick(c)
    \/ \E k \in EventKinds, ok \in rs : LoopRecv(c, k, ok)
    \/ LoopCancel(c)
    \/ \E ok \in rs : LoopTimeout(c, ok)
    \/ \E ok \in rs : LoopEnd(c, ok)

\* ---------------------------------------- metrics: the calling goroutines
\* what a test expects one event to add to the counters
Contribution(k, t, n) ==
    CASE k = "success" /\ t = JobDownload -> [NoCounts EXCEPT !.download = 1]
      [] k = "success" /\ t = JobUpdate -> [NoCounts EXCEPT !.update = n]
      [] k = "fail" -> [NoCounts EXCEPT !.fail = n]
      [] k = "discover" /\ t = JobDownload -> [NoCounts EXCEPT !.discover = 1]
      [] k = "discover" /\ t = JobUpdate -> NoCounts

AddCounts(a, b) ==
    [discover |-> a.discover + b.discover, download |-> a.download + b.download,
     update |-> a.update + b.update, fail |-> a.fail + b.fail]

Total(cnt) == cnt.discover + cnt.download + cnt.update + cnt.fail

\* library.GetOrgFromEndpoint: the second component of the repository id,
\* in lower case
GetOrgFromEndpoint(ep) ==
    CASE ep = "github.com/org1/a" -> "org1"
      [] ep = "github.com/ORG1/b" -> "org1"
      [] ep = "github.com/org2/c" -> "org2"
      [] ep = "github.com/org3/d" -> "org3"

\* triageJob: "j = &(*lj)" is lj itself, so every organization is mapped to
\* the one job, and "j.Endpoints = []string{}" empties that job's endpoints
\* each time an organization is seen for the first time
RECURSIVE TriageFrom(_, _, _, _)
TriageFrom(eps, i, orgs, shared) ==
    IF i > Len(eps) THEN [orgs |-> orgs, eps |-> shared]
    ELSE LET org == GetOrgFromEndpoint(eps[i])
             kept == IF org \in orgs THEN shared ELSE <<>>
         IN TriageFrom(eps, i + 1, orgs \cup {org}, Append(kept, eps[i]))

TriageJobHead(eps) ==
    TriageFrom(IF eps = <<>> THEN eps ELSE <<Head(eps)>>, 1, {}, <<>>)

TriageJob(eps) == TriageFrom(eps, 1, {}, <<>>)

\* the endpoints of a job that belong to one organization, in their order
OwnEndpoints(eps, org) ==
    SelectSeq(eps, LAMBDA ep : GetOrgFromEndpoint(ep) = org)

\* a job whose endpoints are all of one organization that has a collector
SingleOrg(eps) ==
    /\ eps # <<>>
    /\ \E c \in Collectors : OwnEndpoints(eps, c) = eps

\* Collector.Success / Fail / Discover: a send on the event channel
Put(c, k, job) ==
    /\ Running
    /\ IF chClosed[c]
       THEN /\ panicked' = TRUE
            /\ UNCHANGED <<events, expected, accepted>>
       ELSE /\ Len(events[c][k]) < Capacity
            /\ events' = [events EXCEPT ![c][k] = Append(@, job)]
            /\ expected' = [expected EXCEPT ![c] =
                   AddCounts(@, Contribution(k, job.type, Len(job.eps)))]
            /\ accepted' = [accepted EXCEPT ![c] = @ + 1]
            /\ UNCHANGED panicked

\* a goroutine sends one event straight to a collector
Event(c, k, t, eps) ==
    /\ nevents < NEvents
    /\ Put(c, k, [type |-> t, eps |-> eps, orig |-> eps])
    /\ nevents' = nevents + 1
    /\ UNCHANGED <<poolState, chanNil, chClosed, counts, loopPc, stop, batch,
                   syncTimeout, cwg, sends, sendSeen, sendErr, finalSends,
                   stopPc, immediate, target, todo, stopRet, mixed, nstops>>

\* CollectorByOrg.Success / Fail / Discover: triageJob, then the same call on
\* the collector of every organization found that has one
OrgEvent(k, t, eps) ==
    LET orgs == TriageJob(eps)
        targets == orgs.orgs \cap Collectors
        job == [type |-> t, eps |-> orgs.eps, orig |-> eps]
    IN /\ Running
       /\ nevents < NOrgEvents
       /\ IF \E c \in targets : chClosed[c]
          THEN /\ panicked' = TRUE
               /\ UNCHANGED <<events, expected, accepted>>
          ELSE /\ \A c \in targets : Len(events[c][k]) < Capacity
               /\ events' = [c \in Collectors |->
                      IF c \in targets
                      THEN [events[c] EXCEPT ![k] = Append(@, job)]
                      ELSE events[c]]
               /\ expected' = [c \in Collectors |->
                      IF c \in targets
                      THEN AddCounts(expected[c],
                               Contribution(k, t, Len(OwnEndpoints(eps, c))))
                      ELSE expected[c]]
               /\ accepted' = [c \in Collectors |->
                      IF c \in targets THEN accepted[c] + 1 ELSE accepted[c]]
               /\ UNCHANGED panicked
       /\ mixed' = (mixed \/ ~SingleOrg(eps))
       /\ nevents' = nevents + 1
       /\ UNCHANGED <<poolState, chanNil, chClosed, counts, loopPc, stop,
                      batch, syncTimeout, cwg, sends, sendSeen, sendErr,
                      finalSends, stopPc, immediate, target, todo, stopRet,
                      nstops>>

\* a goroutine calls Stop(imm): Collector.Stop on one collector, or
\* CollectorByOrg.Stop, which ranges over c.orgMetrics
StopCall(cs, imm, max) ==
    /\ Running
    /\ stopPc = "idle"
    /\ nstops < max
    /\ nstops' = nstops + 1
    /\ immediate' = imm
    /\ todo' = cs
    /\ stopPc' = "next"
    /\ UNCHANGED <<poolState, panicked, loopVars, expected, accepted, target,
                   stopRet, mixed, nevents>>

\* CollectorByOrg.Stop: the next collector of the range (a Go map is ranged
\* over in any order), or the return.  Collector.Stop: "if c.cancel == nil
\* return", else the send on c.cancel blocks until the loop receives it.
StopStep ==
    /\ Running
    /\ stopPc = "next"
    /\ IF todo = {}
       THEN /\ stopPc' = "idle"
            /\ UNCHANGED <<todo, target>>
       ELSE \E c \in todo :
               /\ todo' = todo \ {c}
               /\ target' = c
               /\ stopPc' = IF chClosed[c] THEN "next" ELSE "send"
    /\ UNCHANGED <<poolState, panicked, loopVars, expected, accepted,
                   immediate, stopRet, mixed, nevents, nstops>>

\* Collector.Stop: c.wg.Wait() returns
StopJoin ==
    /\ Running
    /\ stopPc = "wait"
    /\ cwg[target] = 0
    /\ stopRet' = [stopRet EXCEPT ![target] =
                      IF immediate THEN "immediate" ELSE "graceful"]
    /\ stopPc' = "next"
    /\ UNCHANGED <<poolState, panicked, loopVars, expected, accepted,
                   immediate, target, todo, mixed, nevents, nstops>>

\* one collector, driven on its own: it is sent the jobs of its organization
OwnLists(c) == {eps \in EndpointLists : OwnEndpoints(eps, c) = eps}

SendsEvent ==
    \E k \in EventKinds, t \in EventTypes, eps \in OwnLists(Single) :
        Event(Single, k, t, eps)

CallsStop == \E imm \in BOOLEAN : StopCall({Single}, imm, MaxStops)

CollectorInit == Init /\ fnKind = "combined" /\ ~notWaitNewJobs

CollectorNext ==
    \/ Loop(Single, SendResults)
    \/ SendsEvent
    \/ CallsStop
    \/ StopStep
    \/ StopJoin

CollectorSpec == CollectorInit /\ [][CollectorNext]_vars

\* the collectors of a CollectorByOrg, built with NewCollector's default Send
SendsOrgEvent ==
    \E k \in EventKinds, t \in EventTypes, eps \in EndpointLists :
        OrgEvent(k, t, eps)

CallsOrgStop == \E imm \in BOOLEAN : StopCall(Collectors, imm, MaxOrgStops)

ByOrgNext ==
    \/ \E c \in Collectors : Loop(c, DefaultSend)
    \/ SendsOrgEvent
    \/ CallsOrgStop
    \/ StopStep
    \/ StopJoin

ByOrgSpec == CollectorInit /\ [][ByOrgNext]_vars

\* one collector whose SyncTime never elapses and whose events all add to a
\* counter, as in TestMetricsCollectorBatch
BatchEvents ==
    {e \in EventKinds \X EventTypes \X OwnLists(Single) :
        Total(ModifyMetrics(NoCounts, [type |-> e[2], eps |-> e[3],
                                       orig |-> e[3]], e[1])) >= 1}

BatchEvent ==
    \E e \in BatchEvents :
        /\ nevents < NBatchEvents
        /\ Put(Single, e[1], [type |-> e[2], eps |-> e[3], orig |-> e[3]])
        /\ nevents' = nevents + 1
        /\ UNCHANGED <<poolState, chanNil, chClosed, counts, loopPc, stop,
                       batch, syncTimeout, cwg, sends, sendSeen, sendErr,
                       finalSends, stopPc, immediate, target, todo, stopRet,
                       mixed, nstops>>

BatchNext ==
    \/ Begin(Single)
    \/ \E k \in EventKinds, ok \in SendResults : LoopRecv(Single, k, ok)
    \/ LoopCancel(Single)
    \/ \E ok \in SendResults : LoopTimeout(Single, ok)
    \/ \E ok \in SendResults : LoopEnd(Single, ok)
    \/ BatchEvent
    \/ CallsStop
    \/ StopStep
    \/ StopJoin

BatchSpec == CollectorInit /\ [][BatchNext]_vars

\* ------------------------------------------------- discovery.GitHub
\* everything but the discovery provider
discRest == <<corePool, panicked, collectorVars, iterVars, updVars, jobVars,
             retryVars, advVars>>

\* time.Second and time.Hour, in milliseconds
Second == 1000
Hour == 3600 * Second

\* GHOrgReposIter.waitNewRepos (the default)
WaitNewReposTime == 24 * Hour

TimeToRetryNoFallback(now, resetTime, remaining, limit) ==
    ((resetTime - now) * Second) \div (remaining + 1)

\* timeToRetry, from the Unix times and the rate of the response
TimeToRetry(now, resetTime, remaining, limit) ==
    LET timeToReset == (resetTime - now) * Second
        wrong == timeToReset < 0 \/ timeToReset > Hour
    IN IF wrong THEN Hour \div (limit + 1)
       ELSE timeToReset \div (remaining + 1)

\* responses of a rate-limited request: reset in the past, now, in 2 s
RateSamples ==
    {[now |-> 10, reset |-> r, remaining |-> m, limit |-> 60] :
        r \in {9, 10, 12}, m \in {0, 1}}

\* what p.iter.Next returns: a repository, ErrNewRepositoriesNotFound with
\* the time to wait for new ones, ErrRateLimitExceeded with timeToRetry, or
\* another error with -1
IterResults ==
    {[kind |-> "repo", retry |-> 0, fork |-> f] : f \in BOOLEAN}
    \cup {[kind |-> "notfound", retry |-> WaitNewReposTime, fork |-> FALSE]}
    \cup {[kind |-> "ratelimit",
           retry |-> TimeToRetry(x.now, x.reset, x.remaining, x.limit),
           fork |-> FALSE] : x \in RateSamples}
    \cup {[kind |-> "fatal", retry |-> -1, fork |-> FALSE]}

\* what p.advertiseRepos returns: nil, ErrAdvertiseTimeout, another error
AdvertiseResults == {"ok", "timeout", "error"}

\* errors: "nil", ErrDiscoveryStopped.New() ("stopped"),
\* ErrDiscoveryStopped.Wrap(err) ("stopped:" and the kind of err), or the
\* iterator's or the advertise function's own error
Unwrapped(k) == k

Wrapped(k) ==
    CASE k = "notfound" -> "stopped:notfound"
      [] k = "ratelimit" -> "stopped:ratelimit"

\* ErrDiscoveryStopped.Is(err)
IsStopped(e) == e \in {"stopped", "stopped:notfound", "stopped:ratelimit"}

GhOptsValues ==
    [waitNewRepos : BOOLEAN, waitOnRateLimit : BOOLEAN, skipForks : BOOLEAN]

NewGitHub(o) ==
    /\ startPc = "unbuilt"
    /\ startPc' = "built"
    /\ ghOpts' = o
    /\ UNCHANGED <<discRest, ghBatch, retryJobs, startRet, discPc, discErr,
                   lastIter, iterCalls, advCalls, advLast, advErr, ghStop, ghStopRet,
                   ghStops>>

\* Start: the first iteration spawns the goroutine and waits in the select
StartBegin ==
    /\ startPc = "built"
    /\ startPc' = "select"
    /\ discPc' = "run"
    /\ discErr' = "nil"
    /\ UNCHANGED <<discRest, ghOpts, ghBatch, retryJobs, startRet, lastIter,
                   iterCalls, advCalls, advLast, advErr, ghStop, ghStopRet, ghStops>>

\* the goroutine: err = p.discoverRepositories(ctx); close(done)
Finish(e) ==
    /\ discErr' = e
    /\ discPc' = "done"

\* discoverRepositories, after the append to p.batch
AfterAppend(b) ==
    IF Len(b) < GhBatchSize THEN Finish("nil")
    ELSE discPc' = "send" /\ UNCHANGED discErr

\* discoverRepositories, up to the sleep or the send: a job of p.retryJobs or
\* the next result r of the iterator
DiscNext(r) ==
    /\ discPc = "run"
    /\ iterCalls < MaxNext
    /\ IF retryJobs # <<>>
       THEN /\ retryJobs' = Tail(retryJobs)
            /\ ghBatch' = Append(ghBatch, Head(retryJobs))
            /\ AfterAppend(ghBatch')
            /\ UNCHANGED <<lastIter, iterCalls>>
       ELSE /\ iterCalls' = iterCalls + 1
            /\ lastIter' = r
            /\ UNCHANGED retryJobs
            /\ IF r.kind # "repo"
               THEN /\ UNCHANGED ghBatch
                    /\ IF r.kind = "notfound" /\ ~ghOpts.waitNewRepos
                       THEN Finish(Wrapped(r.kind))
                       ELSE IF r.kind = "ratelimit" /\ ~ghOpts.waitOnRateLimit
                       THEN Finish(Wrapped(r.kind))
                       ELSE IF r.retry <= 0
                       THEN Finish(r.kind)
                       ELSE discPc' = "sleep" /\ UNCHANGED discErr
               ELSE IF ghOpts.skipForks /\ r.fork
                    THEN Finish("nil") /\ UNCHANGED ghBatch
                    ELSE /\ ghBatch' = Append(ghBatch, iterCalls + 1)
                         /\ AfterAppend(ghBatch')
    /\ UNCHANGED <<discRest, ghOpts, startPc, startRet, advCalls, advLast, advErr,
                   ghStop, ghStopRet, ghStops>>

\* a sendBatch that resets the batch whatever the advertise function returns
DiscSendDropsBatch(res) ==
    /\ discPc = "send"
    /\ advCalls' = advCalls + 1
    /\ advLast' = ghBatch
    /\ advErr' = res
    /\ CASE res = "ok" -> ghBatch' = <<>> /\ Finish("nil")
         [] res = "timeout" ->
                discPc' = "sleep" /\ ghBatch' = <<>> /\ UNCHANGED discErr
         [] res = "error" -> Finish("advertise") /\ UNCHANGED ghBatch
    /\ UNCHANGED <<discRest, ghOpts, retryJobs, startPc, startRet, lastIter,
                   iterCalls, ghStop, ghStopRet, ghStops>>

\* discoverRepositories: p.sendBatch(ctxto); on ErrAdvertiseTimeout the
\* batch is kept and the goroutine sleeps for the back-off
DiscSend(res) ==
    /\ discPc = "send"
    /\ advCalls' = advCalls + 1
    /\ advLast' = ghBatch
    /\ advErr' = res
    /\ CASE res = "ok" -> ghBatch' = <<>> /\ Finish("nil")
         [] res = "timeout" ->
                discPc' = "sleep" /\ UNCHANGED <<ghBatch, discErr>>
         [] res = "error" -> Finish("advertise") /\ UNCHANGED ghBatch
    /\ UNCHANGED <<discRest, ghOpts, retryJobs, startPc, startRet, lastIter,
                   iterCalls, ghStop, ghStopRet, ghStops>>

\* discoverRepositories: time.Sleep is over, return nil
DiscWake ==
    /\ discPc = "sleep"
    /\ Finish("nil")
    /\ UNCHANGED <<discRest, ghOpts, ghBatch, retryJobs, startPc, startRet,
                   lastIter, iterCalls, advCalls, advLast, advErr, ghStop, ghStopRet,
                   ghStops>>

\* Start returns e; the deferred function of the iteration sees seen as the
\* value of err, and its p.sendBatch(ctx) gets res from the advertise function
StartReturn(e, seen, res) ==
    /\ startRet' = e
    /\ startPc' = "returned"
    /\ IF IsStopped(seen) /\ Len(ghBatch) > 0
       THEN /\ advCalls' = advCalls + 1
            /\ advLast' = ghBatch
            /\ advErr' = res
            /\ ghBatch' = IF res = "ok" THEN <<>> ELSE ghBatch
       ELSE UNCHANGED <<advCalls, advLast, advErr, ghBatch>>

\* Start: "case <-done": return err, or go round the loop
StartDone(res) ==
    /\ startPc = "select"
    /\ discPc = "done"
    /\ IF discErr # "nil"
       THEN StartReturn(discErr, discErr, res) /\ UNCHANGED <<discPc, discErr>>
       ELSE /\ discPc' = "run"
            /\ discErr' = "nil"
            /\ UNCHANGED <<startPc, startRet, advCalls, advLast, advErr, ghBatch>>
    /\ UNCHANGED <<discRest, ghOpts, retryJobs, lastIter, iterCalls, ghStop,
                   ghStopRet, ghStops>>

\* Start: "case <-p.cancel", the rendezvous with Stop.  The return statement
\* does not assign err: the deferred function reads what the goroutine, which
\* goes on running, has or has not yet written.
StartCancel(res) ==
    /\ startPc = "select"
    /\ ghStop = "send"
    /\ ghStop' = "idle"
    /\ ghStopRet' = "nil"
    /\ \E seen \in {"nil"} \cup (IF discPc = "done" THEN {discErr} ELSE {}) :
           StartReturn("stopped", seen, res)
    /\ UNCHANGED <<discRest, ghOpts, retryJobs, discPc, discErr, lastIter,
                   iterCalls, ghStops>>

\* Stop: the select on the send on p.cancel
GhStopCall ==
    /\ ghStop = "idle"
    /\ ghStops < MaxGhStops
    /\ ghStop' = "send"
    /\ ghStops' = ghStops + 1
    /\ UNCHANGED <<discRest, ghOpts, ghBatch, retryJobs, startPc, startRet,
                   discPc, discErr, lastIter, iterCalls, advCalls, advLast, advErr,
                   ghStopRet>>

\* Stop: "case <-time.After(p.opts.StopTimeout)"
GhStopTimeout ==
    /\ ghStop = "send"
    /\ ghStop' = "idle"
    /\ ghStopRet' = "stop"
    /\ UNCHANGED <<discRest, ghOpts, ghBatch, retryJobs, startPc, startRet,
                   discPc, discErr, lastIter, iterCalls, advCalls, advLast, advErr,
                   ghStops>>

DiscoveryInit == Init /\ fnKind = "combined" /\ ~notWaitNewJobs

DiscoveryNext ==
    \/ \E o \in GhOptsValues : NewGitHub(o)
    \/ StartBegin
    \/ \E r \in IterResults : DiscNext(r)
    \/ \E res \in AdvertiseResults : DiscSend(res)
    \/ DiscWake
    \/ \E res \in AdvertiseResults : StartDone(res)
    \/ \E res \in AdvertiseResults : StartCancel(res)
    \/ GhStopCall
    \/ GhStopTimeout

DiscoverySpec == DiscoveryInit /\ [][DiscoveryNext]_vars

\* ------------------------------------------------- GHOrgReposIter
\* everything but the iterator
iterRest == <<corePool, panicked, collectorVars, discVars, updVars, jobVars,
             retryVars, advVars>>

\* the organization's listing is 1..n in a stable order; what
\* Repositories.ListByOrg returns for a page (page 0 is the first page, as
\* page 1 is) and what it reports as res.NextPage
PageAsked(pg) == IF pg = 0 THEN 1 ELSE pg

ListByOrg(n, pg) ==
    LET first == (PageAsked(pg) - 1) * PerPage + 1
        last == IF PageAsked(pg) * PerPage < n THEN PageAsked(pg) * PerPage
                ELSE n
    IN IF last < first THEN <<>>
       ELSE [i \in 1..(last - first + 1) |-> first + i - 1]

NextPage(n, pg) ==
    IF PageAsked(pg) * PerPage < n THEN PageAsked(pg) + 1 ELSE 0

\* requestRepos, when the request succeeds: the new p.repos, p.checkpoint and
\* p.opts.Page, and the error returned
RequestRepos(st, n) ==
    LET repos == ListByOrg(n, st.page)
        i == IF st.checkpoint > 0 /\ Len(repos) >= st.checkpoint
             THEN st.checkpoint ELSE 0
        bufRepos == SubSeq(repos, i + 1, Len(repos))
    IN [repos |-> bufRepos,
        checkpoint |-> IF Len(repos) < PerPage THEN Len(repos)
                       ELSE st.checkpoint,
        page |-> IF NextPage(n, st.page) = 0
                 THEN IF Len(repos) = PerPage THEN st.page + 1 ELSE st.page
                 ELSE NextPage(n, st.page),
        err |-> IF NextPage(n, st.page) = 0 THEN "notfound" ELSE "nil"]

\* Next: the loop.  st is p.repos, p.checkpoint and p.opts.Page, n the
\* listing, ex the excluded names; the request number failAt of this call, if
\* it is made, fails with the error failure.  The result is the new state, what
\* Next returns (res: "repo" or the error) and the repository.
RECURSIVE NextLoop(_, _, _, _, _, _)
NextLoop(st, n, ex, failAt, failure, req) ==
    LET asked == st.repos = <<>>
        failed == asked /\ req = failAt
        r == IF asked /\ ~failed THEN RequestRepos(st, n)
             ELSE [repos |-> st.repos, checkpoint |-> st.checkpoint,
                   page |-> st.page, err |-> "nil"]
        st2 == [repos |-> r.repos, checkpoint |-> r.checkpoint,
                page |-> r.page]
    IN IF failed THEN [st |-> st, res |-> failure, repo |-> 0]
       ELSE IF r.repos = <<>>
       THEN [st |-> st2, res |-> IF r.err # "nil" THEN r.err ELSE "panic",
             repo |-> 0]
       ELSE LET next == Head(r.repos)
                st3 == [st2 EXCEPT !.repos = Tail(r.repos)]
            IN IF next \notin ex
               THEN [st |-> st3, res |-> "repo", repo |-> next]
               ELSE NextLoop(st3, n, ex, failAt, failure,
                             IF asked THEN req + 1 ELSE req)

\* sets of excluded repositories the iterator is built with
ExcludedSets == {{}, {2}, {3, 4}}

NewGHOrgReposIter(ex) ==
    /\ itLast = "none"
    /\ itLast' = "new"
    /\ excludedRepos' = ex
    /\ UNCHANGED <<iterRest, upstream, itRepos, checkpoint, page, yielded,
                   itCalls>>

\* a repository is appended at the tail of the organization's listing
Grow ==
    /\ upstream < MaxRepos
    /\ upstream' = upstream + 1
    /\ UNCHANGED <<iterRest, excludedRepos, itRepos, checkpoint, page,
                   yielded, itLast, itCalls>>

\* GHOrgReposIter.Next
ItNext(failAt, failure) ==
    /\ itLast \notin {"none", "panic"}
    /\ itCalls < MaxItCalls
    /\ LET r == NextLoop([repos |-> itRepos, checkpoint |-> checkpoint,
                          page |-> page],
                         upstream, excludedRepos, failAt, failure, 1)
       IN /\ itRepos' = r.st.repos
          /\ checkpoint' = r.st.checkpoint
          /\ page' = r.st.page
          /\ itLast' = r.res
          /\ yielded' = IF r.res = "repo" THEN Append(yielded, r.repo)
                        ELSE yielded
    /\ itCalls' = itCalls + 1
    /\ UNCHANGED <<iterRest, upstream, excludedRepos>>

IterInit == Init /\ fnKind = "combined" /\ ~notWaitNewJobs

IterNext ==
    \/ \E ex \in ExcludedSets : NewGHOrgReposIter(ex)
    \/ Grow
    \/ \E failAt \in 0..2, failure \in {"ratelimit", "fatal"} :
           ItNext(failAt, failure)

IterSpec == IterInit /\ [][IterNext]_vars

\* ------------------------------------------------- provider.Updates
\* everything but the updates provider
updRest == <<corePool, panicked, collectorVars, discVars, iterVars, jobVars,
             retryVars, advVars>>

\* the job update() builds for a location
DownloadJobFor(l) == [type |-> JobDownload, locationID |-> l]

UpdateJobFor(l) == [type |-> JobUpdate, locationID |-> l]

NewUpdates(once) ==
    /\ upPc = "unbuilt"
    /\ upPc' = "new"
    /\ upOpts' = [triggerOnce |-> once]
    /\ UNCHANGED <<updRest, locIDs, queue, upRet, sweepPc, sweepLocs,
                   sweepIdx, sweepErr, swept, prevLocs, prevSwept, received,
                   upStop, upStopRet, upStops, sweeps>>

\* testLib.addLocationID
AddLocationID ==
    /\ Len(locIDs) < MaxLocs
    /\ locIDs' = Append(locIDs, Len(locIDs) + 1)
    /\ UNCHANGED <<updRest, upOpts, queue, upPc, upRet, sweepPc, sweepLocs,
                   sweepIdx, sweepErr, swept, prevLocs, prevSwept, received,
                   upStop, upStopRet, upStops, sweeps>>

\* the consumer of the update queue receives a job
Receive ==
    /\ queue # <<>>
    /\ queue' = Tail(queue)
    /\ UNCHANGED <<updRest, locIDs, upOpts, upPc, upRet, sweepPc, sweepLocs,
                   sweepIdx, sweepErr, swept, prevLocs, prevSwept, received,
                   upStop, upStopRet, upStops, sweeps>>

\* update() up to its select: the goroutine is started
BeginUpdate ==
    /\ sweeps' = sweeps + 1
    /\ upPc' = "update"
    /\ sweepPc' = "locations"
    /\ sweepIdx' = 1
    /\ sweepErr' = "nil"
    /\ swept' = <<>>
    /\ prevLocs' = sweepLocs
    /\ prevSwept' = swept
    /\ received' = "none"
    /\ UNCHANGED sweepLocs

\* Start is called: the first update()
UpStart ==
    /\ upPc \in {"new", "returned"}
    /\ sweepPc \in {"none", "closed"}
    /\ sweeps < MaxSweeps
    /\ BeginUpdate
    /\ UNCHANGED <<updRest, locIDs, upOpts, queue, upRet, upStop, upStopRet,
                   upStops>>

\* the goroutine: p.lib.Locations(); with no location ForEach returns at once
\* and done is closed
SweepLocations(ok) ==
    /\ sweepPc = "locations"
    /\ IF ok
       THEN /\ sweepLocs' = locIDs
            /\ sweepPc' = IF locIDs = <<>> THEN "closed" ELSE "foreach"
       ELSE /\ sweepLocs' = <<>>
            /\ sweepPc' = "senderr"
    /\ UNCHANGED <<updRest, locIDs, upOpts, queue, upPc, upRet, sweepIdx,
                   sweepErr, swept, prevLocs, prevSwept, received, upStop,
                   upStopRet, upStops, sweeps>>

\* ForEach's callback: the job is accepted by the queue; after the last
\* location ForEach returns and done is closed
SweepEnqueue ==
    /\ sweepPc = "foreach"
    /\ Len(queue) < QueueCap
    /\ queue' = Append(queue, UpdateJobFor(sweepLocs[sweepIdx]))
    /\ swept' = Append(swept, UpdateJobFor(sweepLocs[sweepIdx]))
    /\ sweepIdx' = sweepIdx + 1
    /\ sweepPc' = IF sweepIdx = Len(sweepLocs) THEN "closed" ELSE "foreach"
    /\ UNCHANGED <<updRest, locIDs, upOpts, upPc, upRet, sweepLocs, sweepErr,
                   prevLocs, prevSwept, received, upStop, upStopRet, upStops,
                   sweeps>>

\* ForEach's callback: the queue stays full for EnqueueTimeout; the callback
\* returns errEnqueueTimeout, ForEach stops and returns it, the goroutine
\* drops it and done is closed
SweepTimeout ==
    /\ sweepPc = "foreach"
    /\ Len(queue) = QueueCap
    /\ sweepErr' = "full"
    /\ sweepPc' = "closed"
    /\ UNCHANGED <<updRest, locIDs, upOpts, queue, upPc, upRet, sweepLocs,
                   sweepIdx, swept, prevLocs, prevSwept, received, upStop,
                   upStopRet, upStops, sweeps>>

\* update()'s select reads done: the error of Locations, which update() and
\* Start return, or the zero value of the closed channel, after which Start
\* returns ErrUpdatesStopped on TriggerOnce and waits otherwise
UpdateDone ==
    /\ upPc = "update"
    /\ sweepPc \in {"senderr", "closed"}
    /\ received' = IF sweepPc = "senderr" THEN "locations" ELSE "nil"
    /\ sweepPc' = "closed"
    /\ IF sweepPc = "senderr"
       THEN upPc' = "returned" /\ upRet' = "locations"
       ELSE IF upOpts.triggerOnce
       THEN upPc' = "returned" /\ upRet' = "stopped"
       ELSE upPc' = "wait" /\ UNCHANGED upRet
    /\ UNCHANGED <<updRest, locIDs, upOpts, queue, sweepLocs, sweepIdx,
                   sweepErr, swept, prevLocs, prevSwept, upStop, upStopRet,
                   upStops, sweeps>>

\* update()'s select, or Start's, reads p.cancel: Stop returns nil and Start
\* returns ErrUpdatesStopped; the goroutine of update() goes on
UpCancel ==
    /\ upPc \in {"update", "wait"}
    /\ upStop = "send"
    /\ upStop' = "idle"
    /\ upStopRet' = "nil"
    /\ upPc' = "returned"
    /\ upRet' = "stopped"
    /\ UNCHANGED <<updRest, locIDs, upOpts, queue, sweepPc, sweepLocs,
                   sweepIdx, sweepErr, swept, prevLocs, prevSwept, received,
                   upStops, sweeps>>

\* Start's select: TriggerInterval elapsed, the next update()
Trigger ==
    /\ upPc = "wait"
    /\ sweeps < MaxSweeps
    /\ BeginUpdate
    /\ UNCHANGED <<updRest, locIDs, upOpts, queue, upRet, upStop, upStopRet,
                   upStops>>

\* Stop is called
UpStopCall ==
    /\ upPc # "unbuilt"
    /\ upStop = "idle"
    /\ upStops < MaxUpStops
    /\ upStop' = "send"
    /\ upStops' = upStops + 1
    /\ UNCHANGED <<updRest, locIDs, upOpts, queue, upPc, upRet, sweepPc,
                   sweepLocs, sweepIdx, sweepErr, swept, prevLocs, prevSwept,
                   received, upStopRet, sweeps>>

\* Stop: StopTimeout elapsed with nobody reading p.cancel
UpStopTimeout ==
    /\ upStop = "send"
    /\ upStop' = "idle"
    /\ upStopRet' = "stopfailed"
    /\ UNCHANGED <<updRest, locIDs, upOpts, queue, upPc, upRet, sweepPc,
                   sweepLocs, sweepIdx, sweepErr, swept, prevLocs, prevSwept,
                   received, upStops, sweeps>>

UpdatesInit == Init /\ fnKind = "combined" /\ ~notWaitNewJobs

UpdatesNext ==
    \/ \E once \in BOOLEAN : NewUpdates(once)
    \/ AddLocationID
    \/ Receive
    \/ UpStart
    \/ \E ok \in BOOLEAN : SweepLocations(ok)
    \/ SweepEnqueue
    \/ SweepTimeout
    \/ UpdateDone
    \/ UpCancel
    \/ Trigger
    \/ UpStopCall
    \/ UpStopTimeout

UpdatesSpec == UpdatesInit /\ [][UpdatesNext]_vars

\* ------------------------- downloader.Download and updater.Update
\* everything but the library job
jobRest == <<corePool, panicked, collectorVars, discVars, iterVars, updVars,
            retryVars, advVars>>

\* endpoints of jobs: two of repository a, one of b, one of c, and one that
\* borges.NewRepositoryID rejects
JobEndpoints ==
    {"https://github.com/o/a.git", "git://github.com/o/a",
     "https://github.com/o/b", "https://github.com/o/c", "://bad"}

\* library.NewRepositoryID: the repository id of an endpoint, without scheme
\* and ".git" suffix; "" when the endpoint is rejected
NewRepositoryID(ep) ==
    CASE ep = "https://github.com/o/a.git" -> "github.com/o/a"
      [] ep = "git://github.com/o/a" -> "github.com/o/a"
      [] ep = "https://github.com/o/b" -> "github.com/o/b"
      [] ep = "https://github.com/o/c" -> "github.com/o/c"
      [] OTHER -> ""

\* a remote of a location's repository: its name is the repository id of the
\* endpoint it was downloaded from, URLs[0] that endpoint
RemoteOf(ep) == [name |-> NewRepositoryID(ep), url |-> ep]

LibValues ==
    {[l \in LocationIDs |->
         IF l = "loc1"
         THEN <<RemoteOf("https://github.com/o/a.git"),
                RemoteOf("https://github.com/o/b"),
                RemoteOf("https://github.com/o/c")>>
         ELSE <<>>],
     [l \in LocationIDs |->
         IF l = "loc1"
         THEN <<RemoteOf("https://github.com/o/b")>>
         ELSE <<RemoteOf("git://github.com/o/a"),
                RemoteOf("https://github.com/o/c")>>],
     [l \in LocationIDs |->
         IF l = "loc1" THEN <<RemoteOf("https://github.com/o/c")>>
         ELSE <<>>]}

EndpointValues ==
    {<<>>,
     <<"https://github.com/o/a.git">>,
     <<"git://github.com/o/a">>,
     <<"https://github.com/o/b">>,
     <<"https://github.com/o/a.git", "https://github.com/o/b">>,
     <<"://bad">>}

JobValues ==
    [type : {JobDownload, JobUpdate}, endpoints : EndpointValues,
     allowUpdate : BOOLEAN, locationID : LocationIDs \cup {""},
     sivaLib : BOOLEAN]

\* names of the remotes in a sequence of remotes
Names(remotes) == [i \in 1..Len(remotes) |-> remotes[i].name]

\* the locations of library l that hold repository r
Holders(l, r) ==
    {loc \in LocationIDs : \E i \in 1..Len(l[loc]) : l[loc][i].name = r}

\* siva Library.Has
Has(l, r) ==
    IF Holders(l, r) = {} THEN [ok |-> FALSE, locID |-> ""]
    ELSE [ok |-> TRUE, locID |-> CHOOSE loc \in Holders(l, r) : TRUE]

\* libHas: what it can return.  When the context is done before the select
\* sees done closed, libHas writes ok and err and reads ok, locID and err
\* while the goroutine may be writing them: every variable read holds either
\* value.
LibHas(l, r, hasFails, cancelled) ==
    LET has == IF hasFails THEN [ok |-> FALSE, locID |-> "", err |-> "has"]
               ELSE [ok |-> Has(l, r).ok, locID |-> Has(l, r).locID,
                     err |-> "nil"]
    IN IF ~cancelled THEN {has}
       ELSE [ok : {FALSE, has.ok}, locID : {"", has.locID},
             err : {"ctx", has.err}]

\* remotesToUpdate: all the remotes of the repository, or the one named
\* remote (none: Remote returns an error)
RemotesToUpdate(remotes, remote) ==
    IF remote = "" THEN remotes
    ELSE SelectSeq(remotes, LAMBDA r : r.name = remote)

\* updater.Update on job j over library l; the fetch number failAt of
\* updateRepository, if it is made, fails.  The result is the job as Update
\* leaves it, the error returned and the names of the remotes fetched.
Update(j, l, failAt) ==
    LET remote == IF Len(j.endpoints) = 1 THEN NewRepositoryID(j.endpoints[1])
                  ELSE ""
        all == IF j.locationID \in LocationIDs THEN l[j.locationID] ELSE <<>>
        remotes == RemotesToUpdate(all, remote)
        j2 == IF Len(j.endpoints) = 0
              THEN [j EXCEPT !.endpoints =
                        [i \in 1..Len(remotes) |-> remotes[i].url]]
              ELSE j
        out(e) == [job |-> j, err |-> e, fetched |-> <<>>]
    IN IF j.type # JobUpdate THEN out("notupdate")
       ELSE IF ~j.sivaLib THEN out("notsiva")
       ELSE IF j.locationID \notin LocationIDs THEN out("nolocation")
       ELSE IF Len(j.endpoints) = 1 /\ remote = "" THEN out("badendpoint")
       ELSE IF remote # "" /\ remotes = <<>> THEN out("noremote")
       ELSE IF failAt \in 1..Len(remotes)
       THEN [job |-> j2, err |-> "fetch",
             fetched |-> SubSeq(Names(remotes), 1, failAt)]
       ELSE [job |-> j2, err |-> "nil", fetched |-> Names(remotes)]

\* downloader.Download on job j over library l, has being what libHas
\* returns.  The result is the job as Download leaves it, the error
\* returned, the remotes fetched, the repository stored and whether libHas
\* was called.
Download(j, l, has, failAt, cloneFails) ==
    LET repoID == NewRepositoryID(j.endpoints[1])
        out(e, asked) == [job |-> j, err |-> e, fetched |-> <<>>,
                          cloned |-> "", asked |-> asked]
        redirected == [j EXCEPT !.type = JobUpdate, !.locationID = has.locID]
        u == Update(redirected, l, failAt)
    IN IF j.type # JobDownload \/ Len(j.endpoints) = 0
       THEN out("notdownload", FALSE)
       ELSE IF ~j.sivaLib THEN out("notsiva", FALSE)
       ELSE IF repoID = "" THEN out("badendpoint", FALSE)
       ELSE IF has.err # "nil" THEN out(has.err, TRUE)
       ELSE IF has.ok
       THEN IF j.allowUpdate
            THEN [job |-> u.job, err |-> u.err, fetched |-> u.fetched,
                  cloned |-> "", asked |-> TRUE]
            ELSE out("exists", TRUE)
       ELSE IF cloneFails THEN out("clone", TRUE)
       ELSE [job |-> j, err |-> "nil", fetched |-> <<>>, cloned |-> repoID,
             asked |-> TRUE]

\* a library and a job are set up
NewLibraryJob(l, j) ==
    /\ jobPc = "none"
    /\ jobPc' = "ready"
    /\ lib' = l
    /\ libJob' = j
    /\ UNCHANGED <<jobRest, jobErr, hasSeen, fetched, cloned>>

\* Download(ctx, job) is called
RunDownload(hasFails, cancelled, failAt, cloneFails) ==
    /\ jobPc = "ready"
    /\ jobPc' = "done"
    /\ \E has \in LibHas(lib, IF libJob.endpoints = <<>> THEN ""
                              ELSE NewRepositoryID(libJob.endpoints[1]),
                         hasFails, cancelled) :
           LET r == Download(libJob, lib, has, failAt, cloneFails)
           IN /\ libJob' = r.job
              /\ jobErr' = r.err
              /\ fetched' = r.fetched
              /\ cloned' = r.cloned
              /\ hasSeen' = IF r.asked THEN has ELSE NoHas
    /\ UNCHANGED <<jobRest, lib>>

\* Update(ctx, job) is called
RunUpdate(failAt) ==
    /\ jobPc = "ready"
    /\ jobPc' = "done"
    /\ LET r == Update(libJob, lib, failAt)
       IN /\ libJob' = r.job
          /\ jobErr' = r.err
          /\ fetched' = r.fetched
    /\ UNCHANGED <<jobRest, lib, hasSeen, cloned>>

JobInit == Init /\ fnKind = "combined" /\ ~notWaitNewJobs

JobNext ==
    \/ \E l \in LibValues, j \in JobValues : NewLibraryJob(l, j)
    \/ \E hasFails, cancelled, cloneFails \in BOOLEAN, failAt \in 0..2 :
           RunDownload(hasFails, cancelled, failAt, cloneFails)
    \/ \E failAt \in 0..2 : RunUpdate(failAt)

JobSpec == JobInit /\ [][JobNext]_vars

\* ------------------------------------------------------ timeToRetry
\* everything but the response
retryRest == <<corePool, panicked, collectorVars, discVars, iterVars, updVars,
              jobVars, advVars>>

\* rate-limited responses: the window ends a second ago, now, in 1 s, in 7 s,
\* in an hour, in an hour and a second
RateValues ==
    {[now |-> 10, reset |-> r, remaining |-> m, limit |-> l,
      pc |-> "given", retry |-> 0] :
        r \in {9, 10, 11, 17, 3610, 3611}, m \in {0, 1, 2, 59},
        l \in {0, 1, 60}}

\* a rate-limited response arrives
Response(r) ==
    /\ rate.pc = "none"
    /\ rate' = r
    /\ UNCHANGED retryRest

\* requestRepos: "return timeToRetry(res), ErrRateLimitExceeded.Wrap(err)"
CallTimeToRetry ==
    /\ rate.pc = "given"
    /\ rate' = [rate EXCEPT
                   !.pc = "returned",
                   !.retry = TimeToRetry(rate.now, rate.reset, rate.remaining,
                                         rate.limit)]
    /\ UNCHANGED retryRest

RetryInit == Init /\ fnKind = "combined" /\ ~notWaitNewJobs

RetryNext ==
    \/ \E r \in RateValues : Response(r)
    \/ CallTimeToRetry

RetrySpec == RetryInit /\ [][RetryNext]_vars

\* ------------------------------- AdvertiseGHRepositoriesOnJobQueue
\* everything but the advertise call
advRest == <<corePool, panicked, collectorVars, discVars, iterVars, updVars,
            jobVars, retryVars>>

\* repositories as GitHub describes them: all URLs, no HTML URL, the SSH URL
\* only, no URL
RepoValues ==
    {[html |-> "https://github.com/o/a", git |-> "git://github.com/o/a",
      ssh |-> "git@github.com:o/a"],
     [html |-> "", git |-> "git://github.com/o/b",
      ssh |-> "git@github.com:o/b"],
     [html |-> "", git |-> "", ssh |-> "git@github.com:o/c"],
     [html |-> "", git |-> "", ssh |-> ""]}

\* the batches a call is given
RECURSIVE Batches(_)
Batches(n) ==
    IF n = 0 THEN {<<>>}
    ELSE Batches(n - 1) \cup
         {Append(b, r) : b \in {x \in Batches(n - 1) : Len(x) = n - 1},
                         r \in RepoValues}

\* GetGHEndpoint: the first URL that is not empty; "" stands for
\* ErrEndpointsNotFound
GetGHEndpoint(r) ==
    IF r.html # "" THEN r.html
    ELSE IF r.git # "" THEN r.git
    ELSE r.ssh

\* the job the advertise function builds for an endpoint
JobOfEndpoint(ep) == [type |-> JobDownload, endpoints |-> <<ep>>]

\* the loop reaches repository i of the batch: past the end, or at a
\* repository without endpoint, the call returns nil; otherwise it waits in
\* the select
LoopAt(repos, i) ==
    IF i > Len(repos) \/ GetGHEndpoint(repos[i]) = "" THEN "returned"
    ELSE "send"

\* the advertise function is called with a batch
Advertise(repos) ==
    /\ advPc = "none"
    /\ batchRepos' = repos
    /\ advIdx' = 1
    /\ advPc' = LoopAt(repos, 1)
    /\ advRet' = IF LoopAt(repos, 1) = "returned" THEN "nil" ELSE advRet
    /\ UNCHANGED <<advRest, jobQueue, advSent>>

\* "case queue <- job": the job is accepted and the loop goes on
AdvSend ==
    /\ advPc = "send"
    /\ Len(jobQueue) < AdvQueueCap
    /\ jobQueue' = Append(jobQueue,
                          JobOfEndpoint(GetGHEndpoint(batchRepos[advIdx])))
    /\ advSent' = Append(advSent,
                         JobOfEndpoint(GetGHEndpoint(batchRepos[advIdx])))
    /\ advIdx' = advIdx + 1
    /\ advPc' = LoopAt(batchRepos, advIdx + 1)
    /\ advRet' = IF LoopAt(batchRepos, advIdx + 1) = "returned" THEN "nil"
                 ELSE advRet
    /\ UNCHANGED <<advRest, batchRepos>>

\* "case <-ctx.Done()": ErrAdvertiseTimeout
AdvTimeout ==
    /\ advPc = "send"
    /\ advPc' = "returned"
    /\ advRet' = "timeout"
    /\ UNCHANGED <<advRest, batchRepos, jobQueue, advIdx, advSent>>

\* the consumer of the job queue receives a job
AdvReceive ==
    /\ jobQueue # <<>>
    /\ jobQueue' = Tail(jobQueue)
    /\ UNCHANGED <<advRest, batchRepos, advIdx, advPc, advRet, advSent>>

AdvInit == Init /\ fnKind = "combined" /\ ~notWaitNewJobs

AdvNext ==
    \/ \E repos \in Batches(MaxAdvBatch) : Advertise(repos)
    \/ AdvSend
    \/ AdvTimeout
    \/ AdvReceive

AdvSpec == AdvInit /\ [][AdvNext]_vars

\* ------------------------------------------------------------- claims
Reports(j) == success[j] + fail[j]

\* a worker has terminated (or was never created)
Terminated(w) == wpc[w] \in {"none", "exited"}

\* the jobs whose Process was still running when their worker received a
\* cancel with the value v
InFlightAt(v) ==
    {cancelInfo[w][2] : w \in {x \in WorkerIds :
        /\ cancelInfo[x][1] = v
        /\ cancelInfo[x][2] # 0
        /\ cancelInfo[x][3] = "processing"}}

\* C1: a job is reported to the metrics collector at most once and never
\* before its Process has returned; once the goroutine that ran Process
\* has finished, the job was reported exactly once, with Success if Process
\* returned nil and with Fail if it returned an error.
C1_OneReportPerJob ==
    \A j \in Jobs :
        /\ success[j] + fail[j] <= 1
        /\ jstate[j] \in {"idle", "processing"} => Reports(j) = 0
        /\ jstate[j] = "done" =>
              /\ result[j] = "nil" => (success[j] = 1 /\ fail[j] = 0)
              /\ result[j] = "error" => (fail[j] = 1 /\ success[j] = 0)

\* C1 witness: a job whose Process returned an error was reported with Fail
\* and with nothing else
C1_Witness ==
    \E j \in Jobs :
        /\ jstate[j] = "done" /\ result[j] = "error"
        /\ fail[j] = 1 /\ success[j] = 0

\* C2: a job whose Process was running when its worker received a cancel
\* with immediate = true is never reported to the metrics collector, not
\* even after Process has returned.
C2_NoReportAfterImmediateStop ==
    \A j \in InFlightAt("immediate") : Reports(j) = 0

\* C3: a worker that received a cancel with immediate = false while a job
\* was in flight takes no other job, and its Start returns only after that
\* job's Process has returned and the job was reported.
C3_GracefulCancelWaits ==
    \A w \in WorkerIds :
        (cancelInfo[w][1] = "graceful" /\ cancelInfo[w][2] # 0) =>
            /\ curJob[w] = cancelInfo[w][2]
            /\ wpc[w] \in {"waitdone", "exited"}
            /\ wpc[w] = "exited" =>
                  (jstate[curJob[w]] = "done" /\ Reports(curJob[w]) = 1)

\* C3 witness: such a worker has terminated, and Process was still running
\* when the cancel arrived
C3_Witness ==
    \E w \in WorkerIds :
        /\ cancelInfo[w][1] = "graceful"
        /\ cancelInfo[w][3] = "processing"
        /\ wpc[w] = "exited"

\* C4: when Close has returned, every job a worker took from the outbound
\* channel has finished Process and was reported, every worker has
\* terminated, and the metrics collector was stopped with Stop(false).
C4_CloseDrains ==
    ret.op = "Close" =>
        /\ \A j \in Jobs : processed[j] > 0 =>
              (jstate[j] = "done" /\ Reports(j) = 1)
        /\ \A w \in WorkerIds : Terminated(w)
        /\ metricsStop = "graceful"

\* C4 witness: Close has returned after it stopped a worker whose job was
\* still in Process
C4_Witness ==
    /\ ret.op = "Close"
    /\ InFlightAt("graceful") # {}

\* the steps the Go runtime takes on its own: every goroutine but the
\* providers, the Process calls and the caller between two calls
Progress ==
    \/ Scheduler
    \/ \E w \in WorkerIds : Worker(w)
    \/ CallerGoesOn
    \/ SchedCancel

\* C5: after Run, a Stop call is never stuck, whether or not the Process
\* calls in flight return: while it has not returned the program has not
\* panicked and some goroutine other than a provider or a Process call can
\* take a step; when it has returned the pool holds no worker.
C5_StopReturns ==
    /\ (ran /\ call.op = "Stop") => (~panicked /\ ENABLED Progress)
    /\ (ran /\ ret.op = "Stop" /\ cpc = "idle") => Len(workers) = 0

\* C6: a Size call made right after SetWorkers(n) has returned yields
\* max(0, n).
C6_SizeAfterSetWorkers ==
    [][(Size /\ ret.op = "SetWorkers") =>
          ret'.res = (IF ret.arg < 0 THEN 0 ELSE ret.arg)]_vars

\* C6 witness: Size has returned 1 after SetWorkers(2) and then SetWorkers(1)
\* shrank the pool from two workers to one
C6_Witness ==
    /\ ret.op = "Size" /\ ret.res = 1
    /\ nextWorker = 2 /\ workersToStop # {}
    /\ ncalls = 3

\* C7, as stated: when a SetWorkers that shrank the pool has returned, every
\* worker it removed has terminated, its job in flight finished and
\* reported.
C7_RemovedHaveQuiesced ==
    (cpc = "idle" /\ ret.op = "SetWorkers") =>
        \A w \in workersToStop :
            /\ wpc[w] = "exited"
            /\ curJob[w] # 0 => jstate[curJob[w]] = "done"

\* C7, amended: when remove has returned, every worker it removed has
\* received the cancel with immediate = false; such a worker takes no other
\* job and terminates only after its job in flight was processed and
\* reported, which may be after SetWorkers has returned.
C7_RemovedAreCancelled ==
    cpc # "remove_wait" =>
        \A w \in workersToStop :
            /\ cancelInfo[w][1] = "graceful"
            /\ wpc[w] \in {"waitdone", "exited"}
            /\ (wpc[w] = "exited" /\ cancelInfo[w][2] # 0) =>
                  (jstate[cancelInfo[w][2]] = "done"
                   /\ Reports(cancelInfo[w][2]) = 1)

\* C7 witness: SetWorkers has returned while a worker it removed still
\* waits for a Process call that has not returned
C7_Witness ==
    /\ cpc = "idle" /\ ret.op = "SetWorkers"
    /\ \E w \in workersToStop :
          wpc[w] = "waitdone" /\ jstate[curJob[w]] = "processing"

C9_WaitAfterClose ==
    ret.op = "Wait" =>
        (jobsClosed /\ \A w \in WorkerIds : Terminated(w))

\* C9, amended: when Wait has returned, every worker has terminated; the
\* outbound channel is closed if the pool held a worker when Wait was
\* called.
C9_WaitAfterWorkers ==
    ret.op = "Wait" =>
        /\ \A w \in WorkerIds : Terminated(w)
        /\ ret.arg >= 1 => jobsClosed

\* C9 witness: Wait has returned on a pool that held a worker
C9_Witness == ret.op = "Wait" /\ ret.arg >= 1 /\ jobsClosed

\* C10: every job in the outbound channel, and the job Schedule is about to
\* send, has a non-empty id and the kind Download or Update.
C10_OutboundJobsValid ==
    /\ \A i \in 1..Len(jobs) :
          id[jobs[i]] # 0 /\ kind[jobs[i]] \in {JobDownload, JobUpdate}
    /\ schedPc = "send" =>
          (id[schedJob] # 0 /\ kind[schedJob] \in {JobDownload, JobUpdate})

\* C11: a call of the combined schedule function that finds a readable item
\* on the download channel does not go on to the update channel, and a call
\* that found nothing readable on the download channel while the update
\* channel holds a Download or Update job returns that job, not
\* ErrNewJobsNotFound.
C11_PreferDownloadThenUpdate ==
    [][/\ (ScheduleDownload /\ ~dlNil /\ Len(download) > 0) =>
              schedPc' # "up"
       /\ (ScheduleUpdate /\ ~upNil /\ Len(update) > 0
              /\ kind[Head(update)] \in {JobDownload, JobUpdate}) =>
              (schedPc' = "send" /\ schedJob' = Head(update))]_vars

\* the sources of the schedule function are closed and hold no job
SourcesDrained ==
    /\ "download" \in Sources => (downloadClosed /\ download = <<>>)
    /\ "update" \in Sources => (updateClosed /\ update = <<>>)

TimesSent(j) ==
    Cardinality({i \in 1..Len(jobs) : jobs[i] = j}) + processed[j]

\* C13: Discover was called exactly once for every job that was sent on the
\* outbound channel and never for a job that was not sent.
C13_DiscoverIffSent ==
    \A j \in Jobs : discovered[j] = TimesSent(j) /\ discovered[j] <= 1

\* C13 witness: Schedule was cancelled while it held a job to send; the job
\* was dropped and never reported with Discover
C13_Witness ==
    /\ schedPc = "returned" /\ ~jobsClosed
    /\ schedJob # 0 /\ id[schedJob] # 0
    /\ discovered[schedJob] = 0 /\ TimesSent(schedJob) = 0

\* the loop of collector c takes the job at the head of channel k
Absorbs(c, k) ==
    /\ events[c][k] # <<>>
    /\ events'[c][k] = Tail(events[c][k])

\* C14: absorbing one event changes the counters by exactly this much:
\* Success of a Download job adds 1 to downloaded, Success of an Update job
\* adds len(endpoints) to updated, Fail of any job adds len(endpoints) to
\* failed, Discover of a Download job adds 1 to discovered, Discover of an
\* Update job changes nothing; no other counter changes.
C14_CounterTable ==
    [][\A c \in Collectors, k \in EventKinds :
          Absorbs(c, k) =>
              LET job == Head(events[c][k])
                  n == Len(job.eps)
                  old == counts[c]
              IN /\ (k = "success" /\ job.type = JobDownload) =>
                        counts'[c] = [old EXCEPT !.download = old.download + 1]
                 /\ (k = "success" /\ job.type = JobUpdate) =>
                        counts'[c] = [old EXCEPT !.update = old.update + n]
                 /\ k = "fail" =>
                        counts'[c] = [old EXCEPT !.fail = old.fail + n]
                 /\ (k = "discover" /\ job.type = JobDownload) =>
                        counts'[c] = [old EXCEPT !.discover = old.discover + 1]
                 /\ (k = "discover" /\ job.type = JobUpdate) =>
                        counts'[c] = old]_vars

C14_Witness ==
    /\ counts[Single] = [discover |-> 0, download |-> 1, update |-> 2,
                         fail |-> 0]
    /\ accepted[Single] = 3
    /\ \A k \in EventKinds : events[Single][k] = <<>>

\* the last Send invocation of collector c, if there was one, was given the
\* final counters
LastSendSawAll(c) == sends[c] > 0 => sendSeen[c] = counts[c]

\* C15, as stated: after Collector.Stop(false) returns, every event whose
\* call returned has been counted, the sum of the four counters equals the
\* sum of the per-event contributions, and the last Send invocation observed
\* these final counters.
C15_CountedAfterStop ==
    (stopPc = "idle" /\ nstops > 0 /\ ~immediate /\ ~panicked) =>
        /\ counts[Single] = expected[Single]
        /\ Total(counts[Single]) = Total(expected[Single])
        /\ LastSendSawAll(Single)

\* C15, amended: the same, after the return of the Stop(false) call that
\* delivered the cancel to the running loop; and Send was invoked if an
\* event was accepted.  A Stop(false) on a collector that Stop(true) has
\* stopped returns at once and counts nothing.
C15_CountedAfterGracefulStop ==
    stopRet[Single] = "graceful" =>
        /\ counts[Single] = expected[Single]
        /\ Total(counts[Single]) = Total(expected[Single])
        /\ LastSendSawAll(Single)
        /\ accepted[Single] > 0 => sends[Single] > 0

C15_Witness ==
    /\ stopRet[Single] = "graceful"
    /\ accepted[Single] = 3
    /\ Total(counts[Single]) = 5
    /\ sends[Single] = 3
    /\ sendErr[Single]

\* C16: while the collector runs, Send is invoked after an event is absorbed
\* if and only if the number of events absorbed since the last successful
\* flush has reached BatchSize, or SyncTime has elapsed since the last
\* successful flush and that number is greater than zero; a successful Send
\* resets the batch counter to zero (and nothing else does).
C16_FlushRule ==
    [][\A c \in Collectors, k \in EventKinds :
          Absorbs(c, k) =>
              LET n == batch[c] + 1
                  due == n >= BatchSize \/ (syncTimeout[c] /\ n > 0)
                  sent == sends'[c] = sends[c] + 1
              IN /\ sent <=> due
                 /\ ~sent => sends'[c] = sends[c]
                 /\ batch'[c] = IF sent /\ ~sendErr'[c] THEN 0 ELSE n]_vars

C16_Witness ==
    /\ loopPc[Single] = "select"
    /\ accepted[Single] = 2
    /\ \A k \in EventKinds : events[Single][k] = <<>>
    /\ sends[Single] = 1 /\ ~sendErr[Single]
    /\ batch[Single] = 0

\* C17: once the loop has received a cancel with immediate = true, Send is
\* never invoked again, the pending batch and the events still buffered are
\* dropped (nothing is absorbed or counted any more), and the Stop(true)
\* call returns only after the loop has terminated.
C17_ImmediateStopDrops ==
    [][\A c \in Collectors :
          /\ stop[c] => /\ sends'[c] = sends[c]
                        /\ counts'[c] = counts[c]
                        /\ events'[c] = events[c]
                        /\ batch'[c] = batch[c]
          /\ stopRet'[c] = "immediate" => loopPc'[c] = "done"]_vars

C17_Witness ==
    /\ stopRet[Single] = "immediate"
    /\ batch[Single] = 1
    /\ sends[Single] = 0
    /\ \E k \in EventKinds : events[Single][k] # <<>>

\* C18: on Stop(false) the loop first absorbs every event still buffered in
\* its channels; only after the loop has ended is the final Send made, once
\* if the batch counter is greater than zero and not at all otherwise; and
\* the goroutine terminates even if that Send fails.
C18_GracefulStopFlushes ==
    \A c \in Collectors :
        /\ (loopPc[c] \in {"after", "done"} /\ ~stop[c]) =>
               /\ \A k \in EventKinds : events[c][k] = <<>>
               /\ counts[c] = expected[c]
        /\ loopPc[c] # "done" => finalSends[c] = 0
        /\ (loopPc[c] = "done" /\ ~stop[c]) =>
               finalSends[c] = IF batch[c] > 0 THEN 1 ELSE 0
        /\ (loopPc[c] = "after" /\ ~panicked) => ENABLED LoopEnd(c, FALSE)

C18_Witness ==
    /\ stopRet[Single] = "graceful"
    /\ finalSends[Single] = 1
    /\ sendErr[Single]
    /\ accepted[Single] = 3
    /\ sends[Single] = 2

\* the sum, over a set of collectors, of the four counters of each
RECURSIVE SumTotals(_, _)
SumTotals(f, cs) ==
    IF cs = {} THEN 0
    ELSE LET c == CHOOSE x \in cs : TRUE
         IN Total(f[c]) + SumTotals(f, cs \ {c})

\* CollectorByOrg.Stop(false) has returned, having stopped every collector
OrgStopped ==
    /\ stopPc = "idle"
    /\ \A c \in Collectors : stopRet[c] = "graceful"

\* C19: when every job sent to the CollectorByOrg has endpoints of a single
\* organization that has a sub-collector, then after Stop(false) the sum
\* over the sub-collectors of their four counters equals the total
\* contribution of the events sent, and the counters of each sub-collector
\* equal the contribution of the events of its own organization.
C19_PerOrgCounters ==
    (OrgStopped /\ ~mixed) =>
        /\ SumTotals(counts, Collectors) = SumTotals(expected, Collectors)
        /\ \A c \in Collectors : counts[c] = expected[c]

C19_Witness ==
    /\ OrgStopped /\ ~mixed
    /\ nevents = 2
    /\ counts["org1"].update = 2
    /\ counts["org2"].fail = 1

\* C20: for a job whose endpoints belong to several organizations, the
\* event routed to the sub-collector of an organization carries exactly the
\* endpoints of that organization, in their original order, so each
\* sub-collector is credited only with its own organization's endpoints.
C20_RoutesOwnEndpoints ==
    \A c \in Collectors, k \in EventKinds :
        \A i \in 1..Len(events[c][k]) :
            events[c][k][i].eps = OwnEndpoints(events[c][k][i].orig, c)

\* C21: whenever Start ends in the Stopped state (it returns an
\* ErrDiscoveryStopped error, after a Stop() or after a terminal error of the
\* iterator whose wait flag is false) with a non-empty partial batch,
\* advertise is invoked exactly once more, with that batch, before Start
\* returns.
C21_FlushOnStopped ==
    [][(startPc = "select" /\ startPc' = "returned" /\ IsStopped(startRet')
           /\ ghBatch # <<>>) =>
          (advCalls' = advCalls + 1 /\ advLast' = ghBatch)]_vars

\* the iterator's result r is a terminal error whose wait flag is false
Terminal(r) ==
    \/ r.kind = "notfound" /\ ~ghOpts.waitNewRepos
    \/ r.kind = "ratelimit" /\ ~ghOpts.waitOnRateLimit

\* Start is about to leave its select with the goroutine's wrapped error
AtWrappedError ==
    /\ startPc = "select"
    /\ discPc = "done"
    /\ discErr \in {"stopped:notfound", "stopped:ratelimit"}

\* C22, as stated: if the iterator returns ErrNewRepositoriesNotFound while
\* WaitNewRepos is false, or ErrRateLimitExceeded while WaitOnRateLimit is
\* false, Start returns an ErrDiscoveryStopped error that wraps the
\* iterator's error.
C22_ReturnsWrappedError ==
    [][(AtWrappedError /\ startPc' = "returned") => startRet' = discErr]_vars

\* C22, amended: on such an error discoverRepositories returns at once,
\* without sleeping, ErrDiscoveryStopped wrapping the iterator's error; Start
\* can then return, and it returns that error unless its select takes a
\* Stop() that is waiting at the same time, in which case it returns a bare
\* ErrDiscoveryStopped.
C22_TerminalErrorStops ==
    [][/\ (iterCalls' = iterCalls + 1 /\ Terminal(lastIter')) =>
              /\ discPc' = "done"
              /\ lastIter'.kind = "notfound" => discErr' = "stopped:notfound"
              /\ lastIter'.kind = "ratelimit" =>
                     discErr' = "stopped:ratelimit"
       /\ AtWrappedError => ENABLED StartDone("ok")
       /\ (AtWrappedError /\ startPc' = "returned") =>
              /\ startRet' \in {discErr, "stopped"}
              /\ ghStop # "send" => startRet' = discErr]_vars

C22_Witness ==
    /\ startPc = "returned"
    /\ startRet = "stopped:ratelimit"
    /\ lastIter.kind = "ratelimit"
    /\ iterCalls = 3
    /\ ghStop = "idle" /\ ghStops = 0

\* C23: with WaitOnRateLimit = true (respectively WaitNewRepos = true) an
\* ErrRateLimitExceeded (respectively ErrNewRepositoriesNotFound) returned
\* by the iterator never terminates the provider: it waits the returned
\* retry duration, after which Next is called again.
C23_WaitsOnError ==
    [][(/\ iterCalls' = iterCalls + 1
        /\ \/ lastIter'.kind = "ratelimit" /\ ghOpts.waitOnRateLimit
           \/ lastIter'.kind = "notfound" /\ ghOpts.waitNewRepos) =>
          discPc' = "sleep"]_vars

\* C24: however long advertise keeps timing out, the number of discovered
\* repositories the provider holds (pending batch plus retry list) never
\* exceeds MaxJobBuffer + BatchSize.
C24_HeldIsBounded ==
    Len(ghBatch) + Len(retryJobs) <= MaxJobBuffer + GhBatchSize

\* the repositories of the listing 1..n that are not excluded, in order
Wanted(n, ex) == SelectSeq([i \in 1..n |-> i], LAMBDA x : x \notin ex)

\* C25: over a listing with a stable order that only grows at the tail,
\* successive Next calls yield every non-excluded repository exactly once:
\* none is yielded twice, and when Next reports that there is nothing new,
\* none of the listing has been skipped.
C25_YieldsEachOnce ==
    [][/\ \A i, j \in 1..Len(yielded') : yielded'[i] = yielded'[j] => i = j
       /\ (itCalls' = itCalls + 1 /\ itLast' = "notfound") =>
              yielded' = Wanted(upstream, excludedRepos)]_vars

\* how many times job j occurs in the sequence q
Occurrences(q, j) == Cardinality({i \in 1..Len(q) : q[i] = j})

\* C26: a sweep of update() enqueues, in the order of enumeration, one job of
\* type Update per location it has visited, carrying that location's id; a
\* sweep that ends without an enqueue timeout has enqueued exactly one such
\* job per location of the library, and two such sweeps in a row over the
\* same locations enqueue the same multiset of jobs.
C26_OneUpdateJobPerLocation ==
    /\ sweepPc \in {"foreach", "closed"} =>
           /\ Len(swept) <= Len(sweepLocs)
           /\ \A i \in 1..Len(swept) :
                  swept[i] = [type |-> "Update", locationID |-> sweepLocs[i]]
    /\ (sweepPc = "closed" /\ sweepErr = "nil") =>
           /\ Len(swept) = Len(sweepLocs)
           /\ \A l \in 1..MaxLocs :
                  Occurrences(swept, [type |-> "Update", locationID |-> l])
                      = Occurrences(sweepLocs, l)
    /\ (sweeps >= 2 /\ sweepPc = "closed" /\ sweepErr = "nil"
           /\ prevLocs = sweepLocs /\ Len(prevSwept) = Len(prevLocs)) =>
           \A l \in 1..MaxLocs, t \in {"Update", "Download"} :
               Occurrences(swept, [type |-> t, locationID |-> l])
                   = Occurrences(prevSwept, [type |-> t, locationID |-> l])

C26_Witness ==
    /\ sweeps = 2 /\ sweepPc = "closed" /\ sweepErr = "nil"
    /\ Len(sweepLocs) = MaxLocs /\ Len(swept) = MaxLocs
    /\ prevLocs = sweepLocs /\ Len(prevSwept) = MaxLocs

\* C27: when an enqueue of a sweep times out, the sweep enqueues no further
\* location, and update(), reading the end of that sweep, returns the
\* "update queue is full" error, which Start returns.
C27_FullQueueReported ==
    [][/\ (sweepErr = "full" /\ sweeps' = sweeps) => swept' = swept
       /\ (sweepErr = "full" /\ received = "none" /\ received' # "none") =>
              (upPc' = "returned" /\ upRet' = "full")]_vars

\* the elements of a sequence
Range(q) == {q[i] : i \in 1..Len(q)}

\* C28: when Download's libHas call reports the job's repository present:
\* with AllowUpdate the job becomes an Update job whose LocationID is the
\* location holding the repository and Download returns what Update returns;
\* without AllowUpdate the job's type is unchanged, nothing is downloaded and
\* Download returns ErrRepoAlreadyExists.
C28_AlreadyPresent ==
    [][(jobPc = "ready" /\ jobPc' = "done" /\ hasSeen'.ok
           /\ hasSeen'.err = "nil") =>
          IF libJob.allowUpdate
          THEN /\ libJob'.type = "Update"
               /\ libJob'.locationID \in
                      Holders(lib, NewRepositoryID(libJob.endpoints[1]))
               /\ \E failAt \in 0..2 :
                      jobErr' = Update([libJob EXCEPT
                                           !.type = "Update",
                                           !.locationID = libJob'.locationID],
                                       lib, failAt).err
          ELSE /\ libJob'.type = libJob.type
               /\ cloned' = ""
               /\ jobErr' = "exists"]_vars

\* C29: an Update job that succeeds has fetched, with zero endpoints, all the
\* remotes of its location, and with k >= 1 endpoints exactly the remotes
\* those endpoints name.
C29_FetchesNamedRemotes ==
    [][(jobPc = "ready" /\ jobPc' = "done" /\ libJob.type = "Update"
           /\ jobErr' = "nil") =>
          IF libJob.endpoints = <<>>
          THEN fetched' = Names(lib[libJob.locationID])
          ELSE Range(fetched') =
                   {NewRepositoryID(libJob.endpoints[i]) :
                        i \in 1..Len(libJob.endpoints)}]_vars

\* C30 as stated: with SyncTime never elapsing and every event adding at
\* least one to a counter, at every Send invocation the sum of the four
\* counters is greater than at the previous Send invocation by at least
\* BatchSize.
C30_EverySendAddsBatch ==
    [][sends'[Single] = sends[Single] + 1 =>
          Total(sendSeen'[Single]) >= Total(sendSeen[Single]) + BatchSize]_vars

\* C30: with SyncTime never elapsing and every event adding at least one to
\* a counter, a Send invocation inside Start's loop that is the first or
\* follows a Send that returned nil sees a sum greater than the previous
\* Send did by at least BatchSize; the Send after the loop, when it is the
\* first or follows a Send that returned nil, sees a strictly greater sum.
C30_SendAfterSuccessAddsBatch ==
    [][(sends'[Single] = sends[Single] + 1 /\ ~sendErr[Single]) =>
          IF loopPc[Single] = "select"
          THEN Total(sendSeen'[Single]) >=
                   Total(sendSeen[Single]) + BatchSize
          ELSE Total(sendSeen'[Single]) > Total(sendSeen[Single])]_vars

C30_Witness ==
    /\ sends[Single] = 2 /\ finalSends[Single] = 0 /\ ~sendErr[Single]
    /\ Total(sendSeen[Single]) >= 2 * BatchSize
    /\ batch[Single] = 0 /\ nevents = NBatchEvents

\* C31: a Send that returns an error leaves the counters as Send saw them
\* and the batch counter not reset; while the last Send has failed, every
\* event the loop absorbs is followed in the same iteration by another Send
\* that is given all the counters, and a loop that ends without an immediate
\* stop makes a last attempt; the counters never decrease.
C31_FailedSendRetried ==
    [][/\ (sends'[Single] = sends[Single] + 1 /\ sendErr'[Single]) =>
              /\ sendSeen'[Single] = counts'[Single]
              /\ batch'[Single] >= batch[Single]
              /\ batch'[Single] > 0
       /\ (sendErr[Single] /\ loopPc[Single] = "select"
              /\ \E k \in EventKinds :
                     Len(events'[Single][k]) < Len(events[Single][k])) =>
              /\ sends'[Single] = sends[Single] + 1
              /\ sendSeen'[Single] = counts'[Single]
       /\ (sendErr[Single] /\ loopPc[Single] = "after"
              /\ loopPc'[Single] = "done" /\ ~stop[Single]) =>
              /\ sends'[Single] = sends[Single] + 1
              /\ sendSeen'[Single] = counts[Single]
       /\ \A f \in DOMAIN NoCounts :
              counts'[Single][f] >= counts[Single][f]]_vars

C31_Witness ==
    /\ sends[Single] = 2 /\ sendErr[Single]
    /\ batch[Single] = BatchSize + 1
    /\ Total(sendSeen[Single]) >= BatchSize + 1
    /\ sendSeen[Single] = counts[Single]

\* C32: whenever the iterator is about to request a page for which the
\* upstream reports a non-zero next page, requestRepos moves to that page
\* with the checkpoint at zero, and the request of that next page buffers
\* the whole page.
C32_AdvanceClearsCheckpoint ==
    (itLast \notin {"none", "panic"} /\ itRepos = <<>>
        /\ NextPage(upstream, page) # 0) =>
        LET r == RequestRepos([repos |-> itRepos, checkpoint |-> checkpoint,
                               page |-> page], upstream)
            after == RequestRepos([repos |-> <<>>, checkpoint |-> r.checkpoint,
                                   page |-> r.page], upstream)
        IN /\ r.page = NextPage(upstream, page)
           /\ r.checkpoint = 0
           /\ after.repos = ListByOrg(upstream, r.page)

\* C33 as stated: timeToRetry returns (reset - now) / (remaining + 1) when
\* reset - now lies in [0, 1 hour], and otherwise one hour divided by the
\* rate limit.
C33_FallbackDividesByLimit ==
    (rate.pc = "returned" /\ rate.limit > 0) =>
        rate.retry =
            IF rate.reset - rate.now >= 0 /\ rate.reset - rate.now <= 3600
            THEN ((rate.reset - rate.now) * 1000) \div (rate.remaining + 1)
            ELSE 3600000 \div rate.limit

\* C33: timeToRetry returns (reset - now) / (remaining + 1) when reset - now
\* lies in [0, 1 hour], and otherwise one hour divided by the rate limit
\* plus one (durations in milliseconds, integer division).
C33_FallbackDividesByLimitPlusOne ==
    rate.pc = "returned" =>
        rate.retry =
            IF rate.reset - rate.now >= 0 /\ rate.reset - rate.now <= 3600
            THEN ((rate.reset - rate.now) * 1000) \div (rate.remaining + 1)
            ELSE 3600000 \div (rate.limit + 1)

C33_Witness ==
    /\ rate.pc = "returned" /\ rate.reset - rate.now > 3600
    /\ rate.limit = 60 /\ rate.remaining = 1
    /\ rate.retry = 59016

\* C34: a Stop call on a worker that has ended on the closed jobs channel,
\* and so has closed its cancel channel, does not panic.
C34_StopOnEndedWorkerIsSafe ==
    (\E w \in WorkerIds :
        cancelClosed[w] /\ ~stopped[w] /\ stopReq[w] # "none") => ~panicked

\* the jobs a batch calls for: one Download job with the one endpoint of
\* every repository that has an endpoint, in the order of the batch
RECURSIVE JobsOfBatch(_)
JobsOfBatch(repos) ==
    IF repos = <<>> THEN <<>>
    ELSE IF GetGHEndpoint(Head(repos)) = "" THEN JobsOfBatch(Tail(repos))
    ELSE <<[type |-> "Download",
            endpoints |-> <<GetGHEndpoint(Head(repos))>>]>>
             \o JobsOfBatch(Tail(repos))

\* C35: when the advertise function has returned nil for a batch, it has
\* enqueued one Download job carrying the one endpoint of every repository
\* of the batch that has an endpoint, whether or not the batch holds
\* repositories without endpoints.
C35_NilMeansAllEnqueued ==
    (advPc = "returned" /\ advRet = "nil") =>
        advSent = JobsOfBatch(batchRepos)

\* s is a prefix of t
IsPrefixOf(s, t) == Len(s) <= Len(t) /\ SubSeq(t, 1, Len(s)) = s

\* C36: an advertise call that fails with ErrAdvertiseTimeout leaves the
\* batch as it was and the goroutine backs off, every advertise call is
\* given the whole batch, and repositories leave the batch only in a step in
\* which an advertise call given all of them returned nil; so the
\* repositories of a timed-out batch are part of every later attempt.
C36_TimeoutKeepsBatch ==
    [][/\ (advCalls' # advCalls) => advLast' = ghBatch
       /\ (advCalls' # advCalls /\ advErr' = "timeout") =>
              /\ ghBatch' = ghBatch
              /\ retryJobs' = retryJobs
              /\ (discPc = "send" => discPc' = "sleep")
       /\ \/ IsPrefixOf(ghBatch, ghBatch')
          \/ (advCalls' = advCalls + 1 /\ advErr' = "ok" /\ ghBatch' = <<>>)
      ]_vars

\* C36 witness: an advertise call returned nil for a batch longer than the
\* batch size, that is, after an earlier attempt on its first repositories
\* had timed out
C36_Witness ==
    /\ advCalls >= 2
    /\ advErr = "ok"
    /\ Len(advLast) > GhBatchSize
    /\ ghBatch = <<>>
    /\ startPc = "select"

\* C37: after Run, a Close call is never stuck as long as the Process calls
\* in flight return: while Close has not returned and nothing has panicked,
\* the scheduler, a worker, a Process call or the caller inside Close can
\* take a step, also once the scheduler has closed the outbound channel and
\* exited.
C37_CloseReturns ==
    (ran /\ call.op = "Close" /\ ~panicked) =>
        ENABLED (Progress \/ Processing)

\* C38: once Metrics.Stop has made the collector close its channels, no
\* Success, Fail or Discover event is sent to it any more, neither by the
\* Process call of a job an immediate stop left behind nor by a scheduler
\* that still runs.
C38_NoEventAfterMetricsStop ==
    [][(metricsStarted /\ metricsStop # "none") =>
          (success' = success /\ fail' = fail /\ discovered' = discovered)
      ]_vars

\* C39: once Stop has returned nil and Start has returned ErrUpdatesStopped,
\* the provider puts no further job on the update queue, also when the
\* cancel was accepted in the middle of a sweep.
C39_NoEnqueueAfterStop ==
    [][(upStopRet = "nil" /\ upPc = "returned" /\ upRet = "stopped") =>
          Len(queue') <= Len(queue)]_vars

\* C40: the job a CollectorByOrg has handed to its collectors, which is the
\* job the caller gave it, still has the endpoints it was given.
C40_EndpointsUnchanged ==
    \A c \in Collectors, k \in EventKinds :
        \A i \in 1..Len(events[c][k]) :
            events[c][k][i].eps = events[c][k][i].orig

====
